---------------------------- MODULE Spec2Model ----------------------------
(***************************************************************************)
(* The Intcode interpreter of src/intcode/src/lib.rs as a state machine.   *)
(*                                                                         *)
(* A machine word (Rust isize on a 64-bit target) is modelled as its       *)
(* two's-complement image: a tuple of Limbs limbs, least significant       *)
(* first, each in 0..LimbBase-1.  The arithmetic of the interpreter is     *)
(* carried out on that image, so that products of 16 decimal digits are    *)
(* computed exactly and overflow is the overflow of the native width.      *)
(***************************************************************************)
EXTENDS Integers, Sequences, FiniteSets, TLC

(***************************************************************************)
(* Evaluation                                                              *)
(***************************************************************************)
\* F applied to the value of v, with v evaluated once: the let of a strict
\* language.
Let(v, F(_)) == CHOOSE r \in {F(x) : x \in {v}} : TRUE

(***************************************************************************)
(* isize                                                                   *)
(***************************************************************************)
\* isize is 64 bits wide: 8 limbs of 8 bits.
Limbs == 8
LimbBase == 256
\* The least limb value whose top bit is set (the sign bit of the top limb).
SignLimb == LimbBase \div 2
\* The limbs of the integers the model's own arithmetic can hold (31 bits
\* and a sign).
IntLimbs == Limbs \div 2

RECURSIVE limbs_of(_, _)
\* The k low limbs of the two's-complement image of the integer n.
limbs_of(n, k) ==
    IF k = 0 THEN <<>> ELSE <<n % LimbBase>> \o limbs_of(n \div LimbBase, k - 1)

\* The isize holding the (small) integer n: an integer literal of the source.
isize_of(n) == limbs_of(n, Limbs)

is_negative(v) == Let(v, LAMBDA x : x[Len(x)] >= SignLimb)

\* signum() as used by convert_addr and is_positive: -1, 0 or 1.
signum(v) ==
    Let(v, LAMBDA x : IF is_negative(x) THEN -1
                      ELSE IF \A i \in 1..Len(x) : x[i] = 0 THEN 0 ELSE 1)

\* Sign extension (or truncation) of v to k limbs.
extend(v, k) ==
    Let(v, LAMBDA x :
        Let(IF is_negative(x) THEN LimbBase - 1 ELSE 0, LAMBDA fill :
            [i \in 1..k |-> IF i <= Len(x) THEN x[i] ELSE fill]))

\* v is the image of an integer the model's own arithmetic can hold.
fits_int(v) == Let(v, LAMBDA x : extend(extend(x, IntLimbs), Len(x)) = x)

RECURSIVE int_from(_, _, _)
int_from(v, i, acc) ==
    IF i = 0 THEN acc ELSE int_from(v, i - 1, acc * LimbBase + v[i])

\* The integer a word stands for; defined for the words that fit.
int_of(v) ==
    Let(v, LAMBDA x : int_from(x, IntLimbs, IF is_negative(x) THEN -1 ELSE 0))

RECURSIVE carry_limbs(_, _, _)
\* The limbs of the number whose digit of weight LimbBase^(i-1) is cols[i]
\* (a digit may exceed a limb), from limb i on with carry c, the carry out of
\* the top limb dropped.
carry_limbs(cols, i, c) ==
    IF i > Len(cols) THEN <<>>
    ELSE Let(cols[i] + c, LAMBDA s :
             <<s % LimbBase>> \o carry_limbs(cols, i + 1, s \div LimbBase))

\* a + b modulo 2^(8 * Len(a)).
wrapping_add(a, b) ==
    Let(a, LAMBDA x : Let(b, LAMBDA y :
        Let([i \in 1..Len(x) |-> x[i] + y[i]], LAMBDA cols :
            carry_limbs(cols, 1, 0))))

RECURSIVE column(_, _, _, _)
\* The sum of the limb products x[i] * y[j] with i + j = k + 1, from i on.
column(x, y, k, i) ==
    IF i > k THEN 0 ELSE x[i] * y[k + 1 - i] + column(x, y, k, i + 1)

\* a * b modulo 2^(8 * Len(a)).
wrapping_mul(a, b) ==
    Let(a, LAMBDA x : Let(b, LAMBDA y :
        Let([k \in 1..Len(x) |-> column(x, y, k, 1)], LAMBDA cols :
            carry_limbs(cols, 1, 0))))

\* The signed sum overflows the width.
add_overflows(a, b) ==
    Let(a, LAMBDA x : Let(b, LAMBDA y :
        /\ is_negative(x) = is_negative(y)
        /\ is_negative(wrapping_add(x, y)) # is_negative(x)))

\* The signed product overflows the width: the product at double width is
\* not the sign extension of its low half.
mul_overflows(a, b) ==
    Let(a, LAMBDA x : Let(b, LAMBDA y :
        Let(wrapping_mul(extend(x, 2 * Len(x)), extend(y, 2 * Len(x))), LAMBDA wide :
            extend(extend(wide, Len(x)), 2 * Len(x)) # wide)))

RECURSIVE less_from(_, _, _)
\* Unsigned comparison of a and b from limb i downwards.
less_from(a, b, i) ==
    IF i = 0 THEN FALSE
    ELSE IF a[i] # b[i] THEN a[i] < b[i]
    ELSE less_from(a, b, i - 1)

\* left < right on isize.
isize_lt(a, b) ==
    Let(a, LAMBDA x : Let(b, LAMBDA y :
        IF is_negative(x) # is_negative(y) THEN is_negative(x)
        ELSE less_from(x, y, Len(x))))

RECURSIVE rem_from(_, _, _)
\* The remainder of the limbs i..Len(v) of the non-negative word v by the
\* small divisor d (long division from the top limb down).
rem_from(v, d, i) ==
    IF i > Len(v) THEN 0 ELSE (rem_from(v, d, i + 1) * LimbBase + v[i]) % d

\* int % d on usize.
usize_rem(v, d) == Let(v, LAMBDA x : rem_from(x, d, 1))

\* int / d on usize.
usize_div(v, d) ==
    Let(v, LAMBDA x :
        [i \in 1..Len(x) |-> (rem_from(x, d, i + 1) * LimbBase + x[i]) \div d])

RECURSIVE dec_from(_, _)
dec_from(groups, i) ==
    IF i = 0 THEN isize_of(0)
    ELSE wrapping_add(wrapping_mul(dec_from(groups, i - 1), isize_of(10000)),
                      isize_of(groups[i]))

\* The isize written as a decimal literal of the source, given in groups of
\* four digits, most significant first: dec(<<12, 3456>>) is 123456.
dec(groups) == dec_from(groups, Len(groups))

(***************************************************************************)
(* Results: Rust's Result, with a panic as a third outcome                 *)
(***************************************************************************)
Res(k, v) == [kind |-> k, val |-> v]
Ok(v) == Res("Ok", v)
\* "Err": the function returns Err(..).  "Panic": the thread panics.
\* "Beyond": the outcome lies outside the bounds of this model.
Fail(k) == Res(k, isize_of(0))

\* Whether the build checks arithmetic overflow (a debug build panics, a
\* release build wraps) is fixed per execution; see the variable
\* overflow_checks below.
isize_add(a, b, checks) ==
    IF checks /\ add_overflows(a, b) THEN Fail("Panic") ELSE Ok(wrapping_add(a, b))

\* A variant of isize_mul for a 32-bit isize: the product is cut to its low
\* four limbs.
isize_mul_narrow(a, b, checks) ==
    IF checks /\ mul_overflows(a, b) THEN Fail("Panic")
    ELSE Ok(extend(extend(wrapping_mul(a, b), IntLimbs), Limbs))

isize_mul(a, b, checks) ==
    IF checks /\ mul_overflows(a, b) THEN Fail("Panic") ELSE Ok(wrapping_mul(a, b))

(***************************************************************************)
(* Opcode, Mode, Operation                                                 *)
(***************************************************************************)
Opcodes == {"ADD", "MUL", "LT", "EQ", "JIT", "JIF", "STR", "OUT", "BAS", "HLT"}

\* Opcode::from_usize: the enum discriminants.
Opcode_from_usize(int) ==
    CASE int = 1  -> "ADD"
      [] int = 2  -> "MUL"
      [] int = 7  -> "LT"
      [] int = 8  -> "EQ"
      [] int = 5  -> "JIT"
      [] int = 6  -> "JIF"
      [] int = 3  -> "STR"
      [] int = 4  -> "OUT"
      [] int = 9  -> "BAS"
      [] int = 99 -> "HLT"
      [] OTHER    -> "Unknown"

instruction_type(opcode) ==
    CASE opcode \in {"ADD", "MUL", "LT", "EQ"} -> "A"
      [] opcode \in {"JIT", "JIF"}             -> "J"
      [] opcode \in {"STR", "OUT", "BAS"}      -> "I"
      [] opcode = "HLT"                        -> "H"

instruction_length(opcode) ==
    CASE instruction_type(opcode) = "A" -> 4
      [] instruction_type(opcode) = "J" -> 3
      [] instruction_type(opcode) = "I" -> 2
      [] instruction_type(opcode) = "H" -> 0

should_move(opcode) ==
    CASE instruction_type(opcode) = "A" -> 4
      [] instruction_type(opcode) = "I" -> 2
      [] instruction_type(opcode) \in {"J", "H"} -> 0

\* Mode::from_usize.
Mode_from_usize(int) ==
    CASE int = 0 -> "Position"
      [] int = 1 -> "Immediate"
      [] int = 2 -> "Relative"
      [] OTHER   -> "Unknown"

Operation(k, opcode, mode1, mode2, mode3) ==
    [kind |-> k, opcode |-> opcode, mode1 |-> mode1, mode2 |-> mode2, mode3 |-> mode3]

NoOperation(k) == Operation(k, "Unknown", "Unknown", "Unknown", "Unknown")

\* A variant of the conversion that takes the third mode for Position
\* without looking at its digit.
Operation_try_from_two_modes(int) ==
    Let(int, LAMBDA v :
        IF signum(v) # 1 THEN NoOperation("Err")
        ELSE Let(Operation("Ok",
                           Opcode_from_usize(usize_rem(v, 100)),
                           Mode_from_usize(usize_rem(usize_div(v, 100), 10)),
                           Mode_from_usize(usize_rem(usize_div(v, 1000), 10)),
                           "Position"),
                 LAMBDA operation :
                 IF "Unknown" \in {operation.opcode, operation.mode1,
                                   operation.mode2, operation.mode3}
                 THEN NoOperation("Err")
                 ELSE operation))

\* impl TryFrom<isize> for Operation.
Operation_try_from(int) ==
    Let(int, LAMBDA v :
        IF signum(v) # 1 THEN NoOperation("Err")
        ELSE Let(Operation("Ok",
                           Opcode_from_usize(usize_rem(v, 100)),
                           Mode_from_usize(usize_rem(usize_div(v, 100), 10)),
                           Mode_from_usize(usize_rem(usize_div(v, 1000), 10)),
                           Mode_from_usize(usize_rem(usize_div(v, 10000), 10))),
                 LAMBDA operation :
                 IF "Unknown" \in {operation.opcode, operation.mode1,
                                   operation.mode2, operation.mode3}
                 THEN NoOperation("Err")
                 ELSE operation))

(***************************************************************************)
(* Bounds of the model                                                     *)
(***************************************************************************)
\* The longest memory the model lets a store grow the tape to.
MaxMemLen == 104
\* The most outputs an instance produces before the driver stops calling it.
MaxOutputs == 16
\* The most values the input source supplies to one instance.
MaxFed == 2
\* The most instructions one run executes.
MaxSteps == 12

(***************************************************************************)
(* IntcodeComputer: a machine m is [pc, rel_base, memory]                  *)
(***************************************************************************)
\* IntcodeComputer::new.
new(program) == [pc |-> 0, rel_base |-> isize_of(0), memory |-> program]

\* self.memory[idx]: Rust indexes from 0.
cell(memory, idx) == memory[idx + 1]

\* self.memory[self.pc + offset]: indexing past the end of the Vec panics.
raw_arg(m, offset) ==
    IF m.pc + offset >= Len(m.memory) THEN Fail("Panic")
    ELSE Ok(cell(m.memory, m.pc + offset))

\* A variant of convert_addr that takes a negative address for address 0.
convert_addr_saturating(i) == IF signum(i) = -1 THEN Ok(isize_of(0)) ELSE Ok(i)


convert_addr(i) == IF signum(i) = -1 THEN Fail("Err") ELSE Ok(i)

\* expr?: the rest K of the function runs on the value of an Ok result;
\* any other result ends the function, which returns Otherwise(its kind).
Try(result, Otherwise(_), K(_)) ==
    Let(result, LAMBDA r : IF r.kind = "Ok" THEN K(r.val) ELSE Otherwise(r.kind))

\* A variant of get_value_from_addr that reads the last cell of the memory
\* where the address is past the end.
get_value_from_addr_clamped(m, addr) ==
    Try(convert_addr(addr), Fail, LAMBDA idx :
        IF m.memory = <<>> THEN Ok(isize_of(0))
        ELSE IF ~fits_int(idx) THEN Ok(cell(m.memory, Len(m.memory) - 1))
        ELSE Let(int_of(idx), LAMBDA i :
                 IF i >= Len(m.memory) THEN Ok(cell(m.memory, Len(m.memory) - 1))
                 ELSE Ok(cell(m.memory, i))))

get_value_from_addr(m, addr) ==
    Try(convert_addr(addr), Fail, LAMBDA idx :
        IF ~fits_int(idx) THEN Ok(isize_of(0))
        ELSE Let(int_of(idx), LAMBDA i :
                 IF i >= Len(m.memory) THEN Ok(isize_of(0))
                 ELSE Ok(cell(m.memory, i))))

\* A variant of resize that fills the new cells with 1.
resize_ones(memory, new_len) ==
    [i \in 1..new_len |-> IF i <= Len(memory) THEN memory[i] ELSE isize_of(1)]

\* self.memory.resize(new_len, 0), for new_len > self.memory.len().
resize(memory, new_len) ==
    [i \in 1..new_len |-> IF i <= Len(memory) THEN memory[i] ELSE isize_of(0)]

\* What a store gives: the memory after it.
Stored(k, memory) == [kind |-> k, memory |-> memory]

\* A variant of get_ptr_from_addr that grows a short tape by one cell more
\* than the address needs.
write_through_ptr_roomy(m, addr, value) ==
    Let(convert_addr(addr), LAMBDA idx :
        IF idx.kind # "Ok" THEN Stored(idx.kind, m.memory)
        ELSE IF ~fits_int(idx.val) THEN Stored("Beyond", m.memory)
        ELSE Let(int_of(idx.val), LAMBDA i :
                 IF i >= MaxMemLen THEN Stored("Beyond", m.memory)
                 ELSE IF i >= Len(m.memory)
                      THEN Stored("Ok", [resize(m.memory, i + 2) EXCEPT ![i + 1] = value])
                 ELSE Stored("Ok", [m.memory EXCEPT ![i + 1] = value])))

\* get_ptr_from_addr, and the write through the reference it returns.  A
\* tape longer than MaxMemLen is beyond the bounds of the model.
write_through_ptr(m, addr, value) ==
    Let(convert_addr(addr), LAMBDA idx :
        IF idx.kind # "Ok" THEN Stored(idx.kind, m.memory)
        ELSE IF ~fits_int(idx.val) THEN Stored("Beyond", m.memory)
        ELSE Let(int_of(idx.val), LAMBDA i :
                 IF i >= MaxMemLen THEN Stored("Beyond", m.memory)
                 ELSE IF i >= Len(m.memory)
                      THEN Stored("Ok", [resize(m.memory, i + 1) EXCEPT ![i + 1] = value])
                 ELSE Stored("Ok", [m.memory EXCEPT ![i + 1] = value])))

\* The address a Position or Relative parameter at pc + offset names.
arg_addr(m, offset, mode, checks) ==
    Try(raw_arg(m, offset), Fail, LAMBDA raw :
        IF mode = "Position" THEN Ok(raw)
        ELSE isize_add(m.rel_base, raw, checks))

\* A variant of load_arg that reads a Relative parameter as a Position one.
load_arg_absolute(m, offset, mode, checks) ==
    IF mode = "Immediate" THEN raw_arg(m, offset)
    ELSE Try(arg_addr(m, offset, "Position", checks), Fail, LAMBDA addr :
             get_value_from_addr(m, addr))

load_arg(m, offset, mode, checks) ==
    IF mode = "Immediate" THEN raw_arg(m, offset)
    ELSE Try(arg_addr(m, offset, mode, checks), Fail, LAMBDA addr :
             get_value_from_addr(m, addr))

\* A variant of store_arg that stores through a Relative parameter as
\* through a Position one.
store_arg_absolute(m, offset, mode, value, checks) ==
    IF mode = "Immediate" THEN Stored("Err", m.memory)
    ELSE Let(arg_addr(m, offset, "Position", checks), LAMBDA addr :
             IF addr.kind # "Ok" THEN Stored(addr.kind, m.memory)
             ELSE write_through_ptr(m, addr.val, value))

\* The result is [kind, memory]: the memory after the store.
store_arg(m, offset, mode, value, checks) ==
    IF mode = "Immediate" THEN Stored("Err", m.memory)
    ELSE Let(arg_addr(m, offset, mode, checks), LAMBDA addr :
             IF addr.kind # "Ok" THEN Stored(addr.kind, m.memory)
             ELSE write_through_ptr(m, addr.val, value))

\* IntcodeComputer::decode.
decode(m) ==
    IF m.pc >= Len(m.memory) THEN NoOperation("Panic")
    ELSE Operation_try_from(cell(m.memory, m.pc))

(***************************************************************************)
(* exec_operation                                                          *)
(*                                                                         *)
(* The result of an arm of the match is [kind, m, val]: the machine after  *)
(* the arm, and how the arm ends.  "Fall": the arm falls out of the match  *)
(* to the trailing pc update.  "RequestingInput", "HaveOutput" (with the   *)
(* value val), "Halted": the arm returns Ok(Some(event)).  "Err", "Panic", *)
(* "Beyond": as for Res; the ? operator returns before anything is         *)
(* written, so the machine is the one the arm started with.                *)
(***************************************************************************)
Arm(k, m, v) == [kind |-> k, m |-> m, val |-> v]
Quit(k, m) == Arm(k, m, isize_of(0))

\* An input source's answer to one call: Some(val) or None.
Some(v) == [some |-> TRUE, val |-> v]
None == [some |-> FALSE, val |-> isize_of(0)]

\* self.store_arg(offset, mode, value)?, the last statement of an arm.
store_and_fall(m, offset, mode, value, checks) ==
    Let(store_arg(m, offset, mode, value, checks), LAMBDA st :
        IF st.kind # "Ok" THEN Quit(st.kind, m)
        ELSE Quit("Fall", [m EXCEPT !.memory = st.memory]))

exec_ADD(m, operation, checks) ==
    Try(load_arg(m, 1, operation.mode1, checks), LAMBDA k : Quit(k, m), LAMBDA augend :
    Try(load_arg(m, 2, operation.mode2, checks), LAMBDA k : Quit(k, m), LAMBDA addend :
    Try(isize_add(augend, addend, checks), LAMBDA k : Quit(k, m), LAMBDA sum :
    store_and_fall(m, 3, operation.mode3, sum, checks))))

\* A variant of exec_MUL that multiplies the first parameter by itself.
exec_MUL_square(m, operation, checks) ==
    Try(load_arg(m, 1, operation.mode1, checks), LAMBDA k : Quit(k, m), LAMBDA multiplicand :
    Try(load_arg(m, 2, operation.mode2, checks), LAMBDA k : Quit(k, m), LAMBDA multiplier :
    Try(isize_mul(multiplicand, multiplicand, checks), LAMBDA k : Quit(k, m), LAMBDA product :
    store_and_fall(m, 3, operation.mode3, product, checks))))

exec_MUL(m, operation, checks) ==
    Try(load_arg(m, 1, operation.mode1, checks), LAMBDA k : Quit(k, m), LAMBDA multiplicand :
    Try(load_arg(m, 2, operation.mode2, checks), LAMBDA k : Quit(k, m), LAMBDA multiplier :
    Try(isize_mul(multiplicand, multiplier, checks), LAMBDA k : Quit(k, m), LAMBDA product :
    store_and_fall(m, 3, operation.mode3, product, checks))))

\* A variant of exec_LT that compares with <=.
exec_LT_or_equal(m, operation, checks) ==
    Try(load_arg(m, 1, operation.mode1, checks), LAMBDA k : Quit(k, m), LAMBDA left :
    Try(load_arg(m, 2, operation.mode2, checks), LAMBDA k : Quit(k, m), LAMBDA right :
    store_and_fall(m, 3, operation.mode3,
                   IF ~isize_lt(right, left) THEN isize_of(1) ELSE isize_of(0),
                   checks)))

exec_LT(m, operation, checks) ==
    Try(load_arg(m, 1, operation.mode1, checks), LAMBDA k : Quit(k, m), LAMBDA left :
    Try(load_arg(m, 2, operation.mode2, checks), LAMBDA k : Quit(k, m), LAMBDA right :
    store_and_fall(m, 3, operation.mode3,
                   IF isize_lt(left, right) THEN isize_of(1) ELSE isize_of(0),
                   checks)))

exec_EQ(m, operation, checks) ==
    Try(load_arg(m, 1, operation.mode1, checks), LAMBDA k : Quit(k, m), LAMBDA left :
    Try(load_arg(m, 2, operation.mode2, checks), LAMBDA k : Quit(k, m), LAMBDA right :
    store_and_fall(m, 3, operation.mode3,
                   IF left = right THEN isize_of(1) ELSE isize_of(0),
                   checks)))

\* A variant of jump_to that lets the pc fall through the jump after it is
\* set.
jump_to_and_advance(m, addr) ==
    IF fits_int(addr) THEN Quit("Fall", [m EXCEPT !.pc = int_of(addr) + 3])
    ELSE Quit("Beyond", m)

\* self.pc = addr.  An address that is no index the model can hold is
\* beyond its bounds.
jump_to(m, addr) ==
    IF fits_int(addr) THEN Quit("Fall", [m EXCEPT !.pc = int_of(addr)])
    ELSE Quit("Beyond", m)

\* self.pc += operation.opcode.instruction_length().
skip_jump(m, operation) ==
    Quit("Fall", [m EXCEPT !.pc = m.pc + instruction_length(operation.opcode)])

\* A variant of exec_JIT that jumps when the test is zero.
exec_JIT_inverted(m, operation, checks) ==
    Try(load_arg(m, 1, operation.mode1, checks), LAMBDA k : Quit(k, m), LAMBDA test :
    Try(load_arg(m, 2, operation.mode2, checks), LAMBDA k : Quit(k, m), LAMBDA loaded :
    Try(convert_addr(loaded), LAMBDA k : Quit(k, m), LAMBDA addr :
    IF signum(test) = 0 THEN jump_to(m, addr) ELSE skip_jump(m, operation))))

\* A variant of exec_JIT that converts the target only when it jumps.
exec_JIT_lazy(m, operation, checks) ==
    Try(load_arg(m, 1, operation.mode1, checks), LAMBDA k : Quit(k, m), LAMBDA test :
    Try(load_arg(m, 2, operation.mode2, checks), LAMBDA k : Quit(k, m), LAMBDA loaded :
    IF signum(test) # 0
    THEN Try(convert_addr(loaded), LAMBDA k : Quit(k, m), LAMBDA addr : jump_to(m, addr))
    ELSE skip_jump(m, operation)))


exec_JIT(m, operation, checks) ==
    Try(load_arg(m, 1, operation.mode1, checks), LAMBDA k : Quit(k, m), LAMBDA test :
    Try(load_arg(m, 2, operation.mode2, checks), LAMBDA k : Quit(k, m), LAMBDA loaded :
    Try(convert_addr(loaded), LAMBDA k : Quit(k, m), LAMBDA addr :
    IF signum(test) # 0 THEN jump_to(m, addr) ELSE skip_jump(m, operation))))

exec_JIF(m, operation, checks) ==
    Try(load_arg(m, 1, operation.mode1, checks), LAMBDA k : Quit(k, m), LAMBDA test :
    Try(load_arg(m, 2, operation.mode2, checks), LAMBDA k : Quit(k, m), LAMBDA loaded :
    Try(convert_addr(loaded), LAMBDA k : Quit(k, m), LAMBDA addr :
    IF signum(test) = 0 THEN jump_to(m, addr) ELSE skip_jump(m, operation))))

\* A variant of exec_STR that steps over the instruction when it asks for
\* input.
exec_STR_skipping(m, operation, input, checks) ==
    IF input.some
    THEN store_and_fall(m, 1, operation.mode1, input.val, checks)
    ELSE Quit("RequestingInput", [m EXCEPT !.pc = m.pc + should_move(operation.opcode)])

\* A variant of exec_STR that asks for more input once it has stored a value.
exec_STR_asking(m, operation, input, checks) ==
    IF input.some
    THEN Let(store_and_fall(m, 1, operation.mode1, input.val, checks), LAMBDA arm :
             IF arm.kind = "Fall"
             THEN Quit("RequestingInput",
                       [arm.m EXCEPT !.pc = arm.m.pc + should_move(operation.opcode)])
             ELSE arm)
    ELSE Quit("RequestingInput", m)

exec_STR(m, operation, input, checks) ==
    IF input.some
    THEN store_and_fall(m, 1, operation.mode1, input.val, checks)
    ELSE Quit("RequestingInput", m)

\* A variant of exec_OUT that returns the output without moving the pc.
exec_OUT_in_place(m, operation, checks) ==
    Try(load_arg(m, 1, operation.mode1, checks), LAMBDA k : Quit(k, m), LAMBDA output :
    Arm("HaveOutput", m, output))

\* A variant of the OUT arm that moves pc before it loads.
exec_OUT_advance_first(m, operation, checks) ==
    Let([m EXCEPT !.pc = m.pc + should_move(operation.opcode)], LAMBDA moved :
    Try(load_arg(m, 1, operation.mode1, checks), LAMBDA k : Quit(k, moved), LAMBDA output :
    Arm("HaveOutput", moved, output)))


exec_OUT(m, operation, checks) ==
    Try(load_arg(m, 1, operation.mode1, checks), LAMBDA k : Quit(k, m), LAMBDA output :
    Arm("HaveOutput", [m EXCEPT !.pc = m.pc + should_move(operation.opcode)], output))

\* A variant of the BAS arm that sets the relative base to its parameter.
exec_BAS_assign(m, operation, checks) ==
    Try(load_arg(m, 1, operation.mode1, checks), LAMBDA k : Quit(k, m), LAMBDA augend :
    Quit("Fall", [m EXCEPT !.rel_base = augend]))


exec_BAS(m, operation, checks) ==
    Try(load_arg(m, 1, operation.mode1, checks), LAMBDA k : Quit(k, m), LAMBDA augend :
    Try(isize_add(m.rel_base, augend, checks), LAMBDA k : Quit(k, m), LAMBDA sum :
    Quit("Fall", [m EXCEPT !.rel_base = sum])))

\* A variant of the HLT arm that moves pc past the HLT.
exec_HLT_advancing(m) == Quit("Halted", [m EXCEPT !.pc = m.pc + 1])


exec_HLT(m) == Quit("Halted", m)

\* The match of exec_operation.
exec_match(m, operation, input, checks) ==
    CASE operation.opcode = "ADD" -> exec_ADD(m, operation, checks)
      [] operation.opcode = "MUL" -> exec_MUL(m, operation, checks)
      [] operation.opcode = "LT"  -> exec_LT(m, operation, checks)
      [] operation.opcode = "EQ"  -> exec_EQ(m, operation, checks)
      [] operation.opcode = "JIT" -> exec_JIT(m, operation, checks)
      [] operation.opcode = "JIF" -> exec_JIF(m, operation, checks)
      [] operation.opcode = "STR" -> exec_STR(m, operation, input, checks)
      [] operation.opcode = "OUT" -> exec_OUT(m, operation, checks)
      [] operation.opcode = "BAS" -> exec_BAS(m, operation, checks)
      [] operation.opcode = "HLT" -> exec_HLT(m)

\* exec_operation: the match, then self.pc += should_move() and Ok(None)
\* for the arms that fall out of it.  kind "None" is Ok(None).
exec_operation(m, operation, input, checks) ==
    Let(exec_match(m, operation, input, checks), LAMBDA arm :
        IF arm.kind = "Fall"
        THEN Quit("None", [arm.m EXCEPT !.pc = arm.m.pc + should_move(operation.opcode)])
        ELSE arm)

\* exec_current: decode, then exec_operation.
exec_current(m, input, checks) ==
    Let(decode(m), LAMBDA operation :
        IF operation.kind # "Ok" THEN Quit(operation.kind, m)
        ELSE exec_operation(m, operation, input, checks))

(***************************************************************************)
(* Programs                                                                *)
(***************************************************************************)
\* vec![..] of small literals.
vec(s) == [i \in 1..Len(s) |-> isize_of(s[i])]

\* The programs of the tests of src/intcode/src/lib.rs.
day02_main_example == vec(<<1, 9, 10, 3, 2, 3, 11, 0, 99, 30, 40, 50>>)
day02_smol_1 == vec(<<1, 0, 0, 0, 99>>)
day02_smol_2 == vec(<<2, 3, 0, 3, 99>>)
day02_smol_3 == vec(<<2, 4, 4, 5, 99, 0>>)
day02_smol_4 == vec(<<1, 1, 1, 4, 99, 5, 6, 0, 99>>)
day05_main_example == vec(<<1002, 4, 3, 4, 33>>)
day05_some_notes == vec(<<1101, 100, -1, 4, 0>>)
day05_custom_io == vec(<<3, 5, 4, 5, 99, 0>>)
output_immediate == vec(<<104, 5, 99>>)
cmp_pos_eq_8 == vec(<<3, 9, 8, 9, 10, 9, 4, 9, 99, -1, 8>>)
cmp_pos_lt_8 == vec(<<3, 9, 7, 9, 10, 9, 4, 9, 99, -1, 8>>)
cmp_imm_eq_8 == vec(<<3, 3, 1108, -1, 8, 3, 4, 3, 99>>)
cmp_imm_lt_8 == vec(<<3, 3, 1107, -1, 8, 3, 4, 3, 99>>)
jmp_pos_zero == vec(<<3, 12, 6, 12, 15, 1, 13, 14, 13, 4, 13, 99, -1, 0, 1, 9>>)
jmp_imm_zero == vec(<<3, 3, 1105, -1, 9, 1101, 0, 0, 12, 4, 12, 99, 1>>)
larger_example ==
    vec(<<3, 21, 1008, 21, 8, 20, 1005, 20, 22, 107, 8, 21, 20, 1006, 20, 31,
          1106, 0, 36, 98, 0, 0, 1002, 21, 125, 20, 4, 20, 1105, 1, 46, 104,
          999, 1105, 1, 46, 1101, 1000, 1, 20, 4, 20, 1105, 1, 46, 98, 99>>)
rel_base_quine ==
    vec(<<109, 1, 204, -1, 1001, 100, 1, 100, 1008, 100, 16, 101, 1006, 101, 0, 99>>)
rel_base_16_digits == vec(<<1102, 34915192, 34915192, 7, 4, 7, 99, 0>>)
rel_base_lorge == <<isize_of(104), dec(<<1125, 8999, 684, 2624>>), isize_of(99)>>

TestPrograms ==
    { day02_main_example, day02_smol_1, day02_smol_2, day02_smol_3, day02_smol_4,
      day05_main_example, day05_some_notes, day05_custom_io, output_immediate,
      cmp_pos_eq_8, cmp_pos_lt_8, cmp_imm_eq_8, cmp_imm_lt_8,
      jmp_pos_zero, jmp_imm_zero, larger_example,
      rel_base_quine, rel_base_16_digits, rel_base_lorge }

\* The mode digits 0 (Position), 1 (Immediate), 2 (Relative).
ModeDigits == {0, 1, 2}

\* LT (7) or EQ (8) in every combination of modes, after the relative base
\* is set to 1.  Parameter 1 is 9 (Immediate), cell 9 = 9 (Position) or
\* cell 10 = 10 (Relative); parameter 2 is 11, cell 11 = 11 or cell 12 = 9;
\* the destination is cell 13 (Position) or cell 14 (Relative), both 5.
cmp_program(op, m1, m2, m3) ==
    vec(<<109, 1, op + 100 * m1 + 1000 * m2 + 10000 * m3, 9, 11, 13, 99, 0, 0,
          9, 10, 11, 9, 5, 5>>)

CmpPrograms ==
    { cmp_program(op, m1, m2, m3) :
        op \in {7, 8}, m1 \in ModeDigits, m2 \in ModeDigits, m3 \in {0, 2} }

\* JIT (5) or JIF (6) in every combination of modes, after the relative base
\* is set to 1.  The condition (raw c, 0 or 11) is c, cell c or cell c + 1:
\* cells 0 and 1 are not 0, cells 11 and 12 are.  The target is 9 (Immediate,
\* the HLT), cell 13 = 7 (Position, the second OUT) or cell 14 = 9 (Relative).
jmp_program(op, m1, m2, c) ==
    vec(<<109, 1, op + 100 * m1 + 1000 * m2, c, IF m2 = 1 THEN 9 ELSE 13,
          104, 1, 104, 2, 99, 0, 0, 0, 7, 9>>)

JmpPrograms ==
    { jmp_program(op, m1, m2, c) :
        op \in {5, 6}, m1 \in ModeDigits, m2 \in ModeDigits, c \in {0, 11} }

\* Programs that reach the other outcomes of a run: a store past the end of
\* the tape through the relative base, two inputs, a store through an
\* immediate, a negative address, a zero and an unknown instruction word, a
\* bad mode digit, a pc that runs off the tape, a loop without events, a sum
\* of two 16-digit values, a sum and a product that overflow isize.
isize_MAX == dec(<<922, 3372, 368, 5477, 5807>>)
rel_store == vec(<<109, 10, 203, 0, 204, 0, 99>>)
two_inputs == vec(<<3, 11, 3, 12, 1, 11, 12, 13, 4, 13, 99, 0, 0, 0>>)
str_immediate == vec(<<103, 0, 99>>)
str_negative == vec(<<3, -1, 99>>)
load_negative == vec(<<4, -1, 99>>)
zero_word == vec(<<0>>)
unknown_opcode == vec(<<1101, 1, 1, 4, 98>>)
bad_mode == vec(<<301, 1, 1, 4, 99>>)
off_the_end == vec(<<1101, 1, 1, 0>>)
busy_loop == vec(<<1105, 1, 0>>)
load_past_end == vec(<<4, 20, 109, 3, 204, 17, 1205, 20, 9, 99>>)
rel_store_negative == vec(<<109, -5, 21101, 1, 2, 3, 99>>)

\* JIT (5) or JIF (6) with the condition c and the target -1, both Immediate.
jmp_negative(op, c) == vec(<<1100 + op, c, -1, 99>>)

JmpNegativePrograms == { jmp_negative(op, c) : op \in {5, 6}, c \in {0, 1} }
add_wide ==
    <<isize_of(1101), dec(<<1125, 8999, 684, 2624>>), dec(<<1125, 8999, 684, 2624>>),
      isize_of(7), isize_of(4), isize_of(7), isize_of(99), isize_of(0)>>
add_overflow ==
    <<isize_of(1101), isize_MAX, isize_of(1), isize_of(7),
      isize_of(4), isize_of(7), isize_of(99), isize_of(0)>>
mul_overflow ==
    <<isize_of(1102), isize_MAX, isize_of(2), isize_of(7),
      isize_of(4), isize_of(7), isize_of(99), isize_of(0)>>

EdgePrograms ==
    { rel_store, two_inputs, str_immediate, str_negative, load_negative,
      zero_word, unknown_opcode, bad_mode, off_the_end, busy_loop,
      add_wide, add_overflow, mul_overflow, load_past_end,
      rel_store_negative }

Programs ==
    TestPrograms \cup CmpPrograms \cup JmpPrograms \cup JmpNegativePrograms
        \cup EdgePrograms

\* The values an input source supplies: those of the tests, and -1.
InputValues == {-1, 0, 2, 6, 7, 8, 9}

\* The answers of an input source to one call.
Answers == {None} \cup {Some(isize_of(v)) : v \in InputValues}

(***************************************************************************)
(* The state machine: one instance and its driver                          *)
(***************************************************************************)
VARIABLES
    prog,             \* the program the instance was created from
    overflow_checks,  \* the build panics on arithmetic overflow (else wraps)
    cpu,              \* the IntcodeComputer: [pc, rel_base, memory]
    status,           \* "new", "running" (inside execute), "returned"
                      \* (Ok(event)), "failed" (Err), "panicked"
    event,            \* the event the last run that returned one returned
    outputs,          \* the values of the HaveOutput events so far
    fed,              \* the values the input source has supplied so far
    run_start,        \* the machine as it was when the current run began
    answer,           \* what the last executed instruction got from the
                      \* input source, if it called it
    nsteps,           \* the instructions executed by the current run
    ring,             \* the feedback ring of day07 (NoRing where there is none)
    loader,           \* the text given to a loader and what it returned
                      \* (NoLoad where nothing is loaded)
    wiring            \* the Wiring of day03 and the wire being run over it
                      \* (NoWiring where there is none)

vars == <<prog, overflow_checks, cpu, status, event, outputs, fed, run_start,
          answer, nsteps, ring, loader, wiring>>

Event(type, value) == [type |-> type, value |-> value]
NoEvent == Event("None", isize_of(0))

NotCalled == [called |-> FALSE, some |-> FALSE, val |-> isize_of(0)]
Called(input) == [called |-> TRUE, some |-> input.some, val |-> input.val]

\* Where a single instance is driven there is no ring.
NoRing == [stage |-> "none"]

\* Where the program is given as a Vec, no loader runs.
NoLoad == [by |-> "none"]

\* Where an intcode instance runs, no wire does.
NoWiring == [wire |-> "none"]

Init ==
    /\ prog \in Programs
    /\ overflow_checks \in BOOLEAN
    /\ cpu = new(prog)
    /\ status = "new"
    /\ event = NoEvent
    /\ outputs = <<>>
    /\ fed = <<>>
    /\ run_start = new(prog)
    /\ answer = NotCalled
    /\ nsteps = 0
    /\ ring = NoRing
    /\ loader = NoLoad
    /\ wiring = NoWiring

\* The driver calls execute: the instance may be new, or an earlier run may
\* have returned an event or an error.
Execute ==
    /\ status \in {"new", "returned", "failed"}
    /\ Len(outputs) <= MaxOutputs
    /\ status' = "running"
    /\ run_start' = cpu
    /\ answer' = NotCalled
    /\ nsteps' = 0
    /\ UNCHANGED <<prog, overflow_checks, cpu, event, outputs, fed, ring, loader, wiring>>

\* A variant of calls_input that calls the input source at every
\* instruction.
calls_input_always(m) ==
    Let(decode(m), LAMBDA operation : operation.kind = "Ok")

\* The instruction at pc is a STORE-INPUT: the one place the input source is
\* called.
calls_input(m) ==
    Let(decode(m), LAMBDA operation : operation.kind = "Ok" /\ operation.opcode = "STR")

\* How the loop of execute goes on after exec_current returned kind k.
status_after(k) ==
    CASE k = "None"  -> "running"
      [] k = "Err"   -> "failed"
      [] k = "Panic" -> "panicked"
      [] OTHER       -> "returned"

\* One exec_current of the loop of execute, and what the loop does with its
\* result: go on (Ok(None)), return the event, return the error.  The input
\* source answers anything when it is called.
ExecCurrent ==
    /\ status = "running"
    /\ nsteps < MaxSteps
    /\ \E called \in {calls_input(cpu)} :
       \E input \in IF called THEN Answers ELSE {None} :
       \E r \in {exec_current(cpu, input, overflow_checks)} :
         /\ r.kind # "Beyond"
         /\ input.some => Len(fed) < MaxFed
         /\ cpu' = r.m
         /\ status' = status_after(r.kind)
         /\ event' = IF status_after(r.kind) = "returned"
                     THEN Event(r.kind, r.val)
                     ELSE event
         /\ outputs' = IF r.kind = "HaveOutput"
                       THEN Append(outputs, r.val)
                       ELSE outputs
         /\ answer' = IF called THEN Called(input) ELSE NotCalled
         /\ fed' = IF input.some THEN Append(fed, input.val) ELSE fed
    /\ nsteps' = nsteps + 1
    /\ UNCHANGED <<prog, overflow_checks, run_start, ring, loader, wiring>>

Next == Execute \/ ExecCurrent

Spec == Init /\ [][Next]_vars

(***************************************************************************)
(* One instance whose first word is any instruction word                   *)
(***************************************************************************)
\* The greatest digit in a mode place of a first word.
MaxDigit == 3
\* The greatest number above the three mode places of a first word.
MaxHigh == 1

\* The first words: every two digits in the opcode place, under every three
\* digits in the mode places and what stands above them, and their
\* negatives.
DecodeWords ==
    { sign * (opcode + 100 * d1 + 1000 * d2 + 10000 * d3 + 100000 * high) :
        sign \in {1, -1}, opcode \in 0..99,
        d1 \in 0..MaxDigit, d2 \in 0..MaxDigit, d3 \in 0..MaxDigit,
        high \in 0..MaxHigh }

decode_program(word) == vec(<<word, 0, 0, 0>>)

InitDecode ==
    /\ prog \in {decode_program(word) : word \in DecodeWords}
    /\ overflow_checks \in BOOLEAN
    /\ cpu = new(prog)
    /\ status = "new"
    /\ event = NoEvent
    /\ outputs = <<>>
    /\ fed = <<>>
    /\ run_start = new(prog)
    /\ answer = NotCalled
    /\ nsteps = 0
    /\ ring = NoRing
    /\ loader = NoLoad
    /\ wiring = NoWiring

SpecDecode == InitDecode /\ [][Next]_vars

TypeOK ==
    /\ overflow_checks \in BOOLEAN
    /\ cpu.pc \in Nat
    /\ Len(cpu.memory) \in Len(prog)..MaxMemLen
    /\ status \in {"new", "running", "returned", "failed", "panicked"}
    /\ Len(outputs) <= MaxOutputs + 1
    /\ Len(fed) <= MaxFed
    /\ nsteps \in 0..MaxSteps

(***************************************************************************)
(* execute as one step: a whole run                                        *)
(***************************************************************************)
\* What a run gives: how it ended (an event kind, "Err", "Panic" or
\* "Beyond"), the machine after it, the value of a HaveOutput, and what is
\* left of the input the run was handed.
Ran(k, m, v, left) == [kind |-> k, m |-> m, val |-> v, left |-> left]

\* day07 hands a run an Option, execute(Some(x)), where execute takes an
\* input source: the source yields the value at its first call and None at
\* every later call.  This is what is left of the input after a call.
after_call(input) == None

RECURSIVE execute_loop(_, _, _, _)
\* The loop of execute, n instructions into the run.  A run of more than
\* MaxSteps instructions is beyond the bounds of the model.
execute_loop(m, input, checks, n) ==
    IF n >= MaxSteps THEN Ran("Beyond", m, isize_of(0), input)
    ELSE Let(calls_input(m), LAMBDA called :
         Let(exec_current(m, IF called THEN input ELSE None, checks), LAMBDA r :
             IF r.kind = "None"
             THEN execute_loop(r.m, IF called THEN after_call(input) ELSE input,
                               checks, n + 1)
             ELSE Ran(r.kind, r.m, r.val,
                      IF called THEN after_call(input) ELSE input)))

\* IntcodeComputer::execute, with the input of the run.
execute(m, input, checks) == execute_loop(m, input, checks, 0)

(***************************************************************************)
(* day07: the feedback ring                                                *)
(***************************************************************************)
\* The most instances in a ring.
MaxRing == 3
\* The most calls the loop of feedback_loop makes.
MaxCalls == 8

\* The result of FeedbackLoopAmp::new and of FeedbackLoopAmp::call: kind is
\* "Ok", "Err", "Panic" or "Beyond"; cpu is the instance's machine after the
\* run; out is the Option call returns; ran is the run that was made.
Amp(k, m, out, ran) == [kind |-> k, cpu |-> m, out |-> out, ran |-> ran]

\* A variant of FeedbackLoopAmp_new that accepts whatever event the seeding
\* run returns.
FeedbackLoopAmp_new_any(phase_signal, m, checks) ==
    Let(execute(m, Some(phase_signal), checks), LAMBDA r :
        CASE r.kind \in {"RequestingInput", "HaveOutput", "Halted"}
                   -> Amp("Ok", r.m, None, r)
          [] OTHER -> Amp(r.kind, r.m, None, r))

\* FeedbackLoopAmp::new.
FeedbackLoopAmp_new(phase_signal, m, checks) ==
    Let(execute(m, Some(phase_signal), checks), LAMBDA r :
        CASE r.kind = "RequestingInput"         -> Amp("Ok", r.m, None, r)
          [] r.kind \in {"HaveOutput", "Halted"} -> Amp("Err", r.m, None, r)
          [] OTHER                               -> Amp(r.kind, r.m, None, r))

\* A variant of call that returns the signal it was given for the output of
\* the run.
call_echo(m, signal, checks) ==
    Let(execute(m, Some(signal), checks), LAMBDA r :
        CASE r.kind = "HaveOutput"      -> Amp("Ok", r.m, Some(signal), r)
          [] r.kind = "Halted"          -> Amp("Ok", r.m, None, r)
          [] r.kind = "RequestingInput" -> Amp("Err", r.m, None, r)
          [] OTHER                      -> Amp(r.kind, r.m, None, r))

\* FeedbackLoopAmp::call.
call(m, signal, checks) ==
    Let(execute(m, Some(signal), checks), LAMBDA r :
        CASE r.kind = "HaveOutput"      -> Amp("Ok", r.m, Some(r.val), r)
          [] r.kind = "Halted"          -> Amp("Ok", r.m, None, r)
          [] r.kind = "RequestingInput" -> Amp("Err", r.m, None, r)
          [] OTHER                      -> Amp(r.kind, r.m, None, r))

\* A variant of with_cpu in which the instances are one machine.
with_cpu_all(cpus, idx, m) == [j \in 1..Len(cpus) |-> m]

\* cpus[idx], borrowed mutably for a call, after the call left it as m.
with_cpu(cpus, idx, m) == [cpus EXCEPT ![idx + 1] = m]

\* A variant of next_idx that stays at the instance that produced the output.
next_idx_stay(idx, len) == idx

\* idx = (idx + 1) % cpus.len().
next_idx(idx, len) == (idx + 1) % len

\* How feedback_loop goes on after a result of kind k.
stage_after(k, going) ==
    CASE k = "Ok"    -> going
      [] k = "Err"   -> "failed"
      [] k = "Panic" -> "panicked"

\* Amplifier programs.  amp_identity reads its phase and a signal, outputs
\* the signal and halts; amp_sum (the program two_inputs) outputs the sum of
\* signal and phase and halts; amp_rounds adds its phase to the signal it
\* reads, twice, before it halts; amp_twice outputs the signal and then,
\* without reading, its phase; amp_greedy reads three values; amp_mute reads
\* its phase and a signal and halts.
amp_identity == vec(<<3, 7, 3, 8, 4, 8, 99, 0, 0>>)
amp_sum == two_inputs
amp_rounds ==
    vec(<<3, 18, 3, 19, 1, 19, 18, 19, 4, 19, 1001, 20, -1, 20, 1005, 20, 2, 99,
          0, 0, 2>>)
amp_twice == vec(<<3, 9, 3, 10, 4, 10, 4, 9, 99, 0, 0>>)
amp_greedy == vec(<<3, 9, 3, 10, 3, 11, 4, 11, 99, 0, 0, 0>>)
amp_mute == vec(<<3, 5, 3, 6, 99, 0, 0>>)

\* The programs a ring is built from: the amplifiers, and programs whose
\* seeding run does not end awaiting input (an output, a halt, an output
\* after the phase is read, an error).
RingPrograms ==
    { amp_identity, amp_sum, amp_rounds, amp_twice, amp_greedy, amp_mute,
      output_immediate, day02_smol_1, day05_custom_io, str_immediate }

\* The phase settings, and the sequences of them a ring is built from.
PhaseValues == {0, 1, 2}
PhaseSeqs == UNION { [1..n -> PhaseValues] : n \in 0..MaxRing }

\* The state of feedback_loop.  seeded and calls record the runs made: for
\* each FeedbackLoopAmp::new its phase and run, for each call its instance,
\* its signal and its run.
InitRing ==
    /\ prog \in RingPrograms
    /\ overflow_checks \in BOOLEAN
    /\ cpu = new(prog)
    /\ status = "new"
    /\ event = NoEvent
    /\ outputs = <<>>
    /\ fed = <<>>
    /\ run_start = new(prog)
    /\ answer = NotCalled
    /\ nsteps = 0
    /\ \E phases \in PhaseSeqs :
         ring = [stage |-> IF phases = <<>> THEN "passing" ELSE "seeding",
                 phases |-> phases,
                 cpus |-> <<>>,
                 idx |-> 0,
                 signal |-> isize_of(0),
                 result |-> isize_of(0),
                 seeded |-> <<>>,
                 calls |-> <<>>]
    /\ loader = NoLoad
    /\ wiring = NoWiring

\* One step of the collect of feedback_loop: FeedbackLoopAmp::new on a new
\* instance for the next phase.  An error ends feedback_loop.
Seed ==
    /\ ring.stage = "seeding"
    /\ \E i \in {Len(ring.cpus) + 1} :
       \E r \in {FeedbackLoopAmp_new(isize_of(ring.phases[i]), new(prog),
                                     overflow_checks)} :
         /\ r.kind # "Beyond"
         /\ ring' = [ring EXCEPT
                       !.cpus = IF r.kind = "Ok" THEN Append(@, r.cpu) ELSE @,
                       !.seeded = Append(@, [phase |-> isize_of(ring.phases[i]),
                                             ran |-> r.ran]),
                       !.stage = stage_after(r.kind,
                                             IF i = Len(ring.phases)
                                             THEN "passing" ELSE "seeding")]
    /\ UNCHANGED <<prog, overflow_checks, cpu, status, event, outputs, fed,
                   run_start, answer, nsteps, loader, wiring>>

\* One iteration of the loop of feedback_loop.  cpus[idx] panics in a ring
\* without instances.
Call ==
    /\ ring.stage = "passing"
    /\ Len(ring.calls) < MaxCalls
    /\ IF ring.cpus = <<>>
       THEN ring' = [ring EXCEPT !.stage = "panicked"]
       ELSE \E r \in {call(ring.cpus[ring.idx + 1], ring.signal, overflow_checks)} :
              /\ r.kind # "Beyond"
              /\ ring' = [ring EXCEPT
                            !.cpus = with_cpu(@, ring.idx, r.cpu),
                            !.calls = Append(@, [idx |-> ring.idx,
                                                 signal |-> ring.signal,
                                                 ran |-> r.ran]),
                            !.signal = IF r.kind = "Ok" /\ r.out.some
                                       THEN r.out.val ELSE @,
                            !.idx = IF r.kind = "Ok" /\ r.out.some
                                    THEN next_idx(@, Len(ring.cpus)) ELSE @,
                            !.result = IF r.kind = "Ok" /\ ~r.out.some
                                       THEN ring.signal ELSE @,
                            !.stage = stage_after(r.kind,
                                                  IF r.out.some
                                                  THEN "passing" ELSE "done")]
    /\ UNCHANGED <<prog, overflow_checks, cpu, status, event, outputs, fed,
                   run_start, answer, nsteps, loader, wiring>>

NextRing == Seed \/ Call

SpecRing == InitRing /\ [][NextRing]_vars

(***************************************************************************)
(* Several instances under a driver that runs them in any order            *)
(***************************************************************************)
\* The number of instances.
FreeInstances == 2

\* The programs of the instances, and the inputs the driver hands a run.
FreePrograms == { amp_identity, amp_sum, rel_store, output_immediate }
FreeAnswers == { None, Some(isize_of(0)), Some(isize_of(1)) }

\* Each instance is created from its own copy of the program.  driven is
\* the instance the last run was made on (0: none yet), kind how that run
\* ended.
InitFree ==
    /\ prog \in FreePrograms
    /\ overflow_checks \in BOOLEAN
    /\ cpu = new(prog)
    /\ status = "new"
    /\ event = NoEvent
    /\ outputs = <<>>
    /\ fed = <<>>
    /\ run_start = new(prog)
    /\ answer = NotCalled
    /\ nsteps = 0
    /\ ring = [stage |-> "free",
               cpus |-> [i \in 1..FreeInstances |-> new(prog)],
               driven |-> 0,
               kind |-> "None"]
    /\ loader = NoLoad
    /\ wiring = NoWiring

\* The driver calls execute on one of the instances.
Drive ==
    /\ ring.stage = "free"
    /\ \E i \in 1..Len(ring.cpus) :
       \E input \in FreeAnswers :
       \E r \in {execute(ring.cpus[i], input, overflow_checks)} :
         /\ r.kind # "Beyond"
         /\ ring' = [ring EXCEPT
                       !.cpus = with_cpu(@, i - 1, r.m),
                       !.driven = i,
                       !.kind = r.kind,
                       !.stage = IF r.kind = "Panic" THEN "panicked" ELSE "free"]
    /\ UNCHANGED <<prog, overflow_checks, cpu, status, event, outputs, fed,
                   run_start, answer, nsteps, loader, wiring>>

NextFree == Drive

SpecFree == InitFree /\ [][NextFree]_vars

(***************************************************************************)
(* The loaders: stdin_to_prog and first_arg_to_prog                        *)
(*                                                                         *)
(* A text is a sequence of characters, each a string of length 1.  The     *)
(* bytes of stdin are ASCII here, and reading does not fail.               *)
(***************************************************************************)
\* The longest text.
MaxText == 4

Chars == {"1", "7", "-", "+", ",", " ", "\n", "x"}
Texts == UNION { [1..n -> Chars] : n \in 0..MaxText }

\* char::is_whitespace, on the characters of a text.
is_whitespace(c) == c \in {" ", "\n"}

\* The decimal digits.
digit_of(c) == CASE c = "1" -> 1 [] c = "7" -> 7 [] OTHER -> -1

RECURSIVE split_from(_, _, _, _)
\* str::split(sep): the pieces of text between the separators, from
\* character i on, cur being the piece begun.  There is one piece more than
\* there are separators: a text that ends in a separator ends in an empty
\* piece.
split_from(text, sep, i, cur) ==
    IF i > Len(text) THEN <<cur>>
    ELSE IF text[i] = sep THEN <<cur>> \o split_from(text, sep, i + 1, <<>>)
    ELSE split_from(text, sep, i + 1, Append(cur, text[i]))

str_split(text, sep) == split_from(text, sep, 1, <<>>)

\* BufRead::split(sep): as str::split, but the end of the input right
\* after a separator (or at once) is the end of the iteration, not an empty
\* piece.
BufRead_split(text, sep) ==
    Let(str_split(text, sep), LAMBDA pieces :
        IF pieces[Len(pieces)] = <<>>
        THEN SubSeq(pieces, 1, Len(pieces) - 1)
        ELSE pieces)

RECURSIVE trim_start(_)
trim_start(string) ==
    IF string # <<>> /\ is_whitespace(string[1]) THEN trim_start(Tail(string))
    ELSE string

RECURSIVE trim_end(_)
trim_end(string) ==
    IF string # <<>> /\ is_whitespace(string[Len(string)])
    THEN trim_end(SubSeq(string, 1, Len(string) - 1))
    ELSE string

\* str::trim.
trim(string) == trim_end(trim_start(string))

RECURSIVE digits_value(_, _, _)
\* The value of the decimal digits string[i..], after the value acc of the
\* digits before them; -1 if one of them is no digit.
digits_value(string, i, acc) ==
    IF i > Len(string) THEN acc
    ELSE IF digit_of(string[i]) < 0 THEN -1
    ELSE digits_value(string, i + 1, 10 * acc + digit_of(string[i]))

\* isize::from_str: an optional sign and at least one digit, nothing else.
\* (No text of MaxText characters overflows isize.)
isize_from_str(string) ==
    Let(IF string # <<>> /\ string[1] \in {"-", "+"} THEN Tail(string) ELSE string,
        LAMBDA digits :
        IF digits = <<>> \/ digits_value(digits, 1, 0) < 0 THEN Fail("Err")
        ELSE IF string[1] = "-" THEN Ok(isize_of(0 - digits_value(digits, 1, 0)))
        ELSE Ok(isize_of(digits_value(digits, 1, 0))))

\* What a loader returns: Ok(program) or Err.
Loaded(k, program) == [kind |-> k, program |-> program]

RECURSIVE collect_from(_, _, _)
\* .map(|string| isize::from_str(string.trim())).collect(): the numbers of
\* the pieces from piece i on, after the numbers acc; the first piece that
\* does not parse ends it with its error.
collect_from(pieces, i, acc) ==
    IF i > Len(pieces) THEN Loaded("Ok", acc)
    ELSE Let(isize_from_str(trim(pieces[i])), LAMBDA num :
             IF num.kind # "Ok" THEN Loaded("Err", <<>>)
             ELSE collect_from(pieces, i + 1, Append(acc, num.val)))

\* The filter of stdin_to_prog: bytes.len() > 0 && bytes[0] != b'\n'.
stdin_filter(bytes) == Len(bytes) > 0 /\ bytes[1] # "\n"

stdin_to_prog(text) ==
    collect_from(SelectSeq(BufRead_split(text, ","), stdin_filter), 1, <<>>)

first_arg_to_prog(text) ==
    collect_from(str_split(text, ","), 1, <<>>)

\* A text is given, on stdin or in the file "input".
InitLoad ==
    /\ prog = <<>>
    /\ overflow_checks \in BOOLEAN
    /\ cpu = new(prog)
    /\ status = "new"
    /\ event = NoEvent
    /\ outputs = <<>>
    /\ fed = <<>>
    /\ run_start = new(prog)
    /\ answer = NotCalled
    /\ nsteps = 0
    /\ ring = NoRing
    /\ \E text \in Texts :
         loader = [by |-> "nothing yet", text |-> text, result |-> Loaded("None", <<>>)]
    /\ wiring = NoWiring

StdinToProg ==
    /\ loader.by = "nothing yet"
    /\ loader' = [loader EXCEPT !.by = "stdin_to_prog",
                                !.result = stdin_to_prog(loader.text)]
    /\ UNCHANGED <<prog, overflow_checks, cpu, status, event, outputs, fed,
                   run_start, answer, nsteps, ring, wiring>>

FirstArgToProg ==
    /\ loader.by = "nothing yet"
    /\ loader' = [loader EXCEPT !.by = "first_arg_to_prog",
                                !.result = first_arg_to_prog(loader.text)]
    /\ UNCHANGED <<prog, overflow_checks, cpu, status, event, outputs, fed,
                   run_start, answer, nsteps, ring, wiring>>

NextLoad == StdinToProg \/ FirstArgToProg

SpecLoad == InitLoad /\ [][NextLoad]_vars

(***************************************************************************)
(* day03: two wires over a grid                                            *)
(***************************************************************************)
\* usize::max_value(): it stands above every count of steps and every
\* distance of the wires run here.
usize_MAX == 2147483647

\* The bits of the two wires.
WIRE1 == 1
WIRE2 == 2

\* Wire::index.
index(wire) == wire - 1

\* A Direction: U, D, L or R and its number.
Direction(dir, num) == [dir |-> dir, num |-> num]

step_coordinate(direction, coordinate) ==
    CASE direction.dir = "U" -> <<coordinate[1], coordinate[2] + 1>>
      [] direction.dir = "D" -> <<coordinate[1], coordinate[2] - 1>>
      [] direction.dir = "L" -> <<coordinate[1] - 1, coordinate[2]>>
      [] direction.dir = "R" -> <<coordinate[1] + 1, coordinate[2]>>

magnitude(direction) == direction.num

\* WireStatus::new_from.  visits is the set of the wires whose bits are set;
\* steps[i + 1] is the source's steps[i].
new_from(wire, step_count) ==
    [visits |-> {wire},
     steps |-> [i \in 1..2 |-> IF i = index(wire) + 1 THEN step_count ELSE usize_MAX]]

\* A variant of visit_from that leaves *new_steps as it is where the wire has
\* been at the point with fewer steps.
visit_from_walked(self, wire, new_steps) ==
    Let(self.steps[wire], LAMBDA current_steps :
        IF current_steps > new_steps
        THEN [self |-> [self EXCEPT !.visits = self.visits \cup {wire},
                                    !.steps[wire] = new_steps],
              new_steps |-> new_steps]
        ELSE [self |-> [self EXCEPT !.visits = self.visits \cup {wire}],
              new_steps |-> new_steps])

\* WireStatus::visit_from: the status after the visit, and what *new_steps
\* is after it.
visit_from(self, wire, new_steps) ==
    Let(self.steps[wire], LAMBDA current_steps :
        IF current_steps < new_steps
        THEN [self |-> [self EXCEPT !.visits = self.visits \cup {wire}],
              new_steps |-> current_steps]
        ELSE IF current_steps > new_steps
        THEN [self |-> [self EXCEPT !.visits = self.visits \cup {wire},
                                    !.steps[wire] = new_steps],
              new_steps |-> new_steps]
        ELSE [self |-> [self EXCEPT !.visits = self.visits \cup {wire}],
              new_steps |-> new_steps])

\* Wire::is_all.
is_crossed(self) == self.visits = {WIRE1, WIRE2}

\* Called on a crossed point only.
total_length(self) == self.steps[1] + self.steps[2]

\* A variant of abs that keeps the sign.
abs_signed(n) == n


abs(n) == IF n < 0 THEN 0 - n ELSE n

\* Wiring::new.  The wiring is a function from the coordinates visited.
Wiring_new ==
    [wiring |-> [coord \in {} |-> new_from(WIRE1, 0)],
     closest_crossing |-> <<usize_MAX \div 2, usize_MAX \div 2>>,
     dist |-> usize_MAX,
     length |-> usize_MAX]

\* Wiring::set_wire: the Wiring after it, and what *steps is after it.
set_wire(self, coord, wire_number, steps) ==
    Let(visit_from(IF coord \in DOMAIN self.wiring THEN self.wiring[coord]
                   ELSE new_from(wire_number, steps),
                   wire_number, steps), LAMBDA visited :
    Let([self EXCEPT !.wiring = (coord :> visited.self) @@ self.wiring], LAMBDA set :
        [steps |-> visited.new_steps,
         self |->
            IF ~is_crossed(visited.self) THEN set
            ELSE Let(abs(coord[1]) + abs(coord[2]), LAMBDA dist :
                 Let(total_length(visited.self), LAMBDA length :
                     [set EXCEPT
                        !.closest_crossing = IF dist < self.dist THEN coord ELSE @,
                        !.dist = IF dist < self.dist THEN dist ELSE @,
                        !.length = IF length < self.length THEN length ELSE @]))]))

\* The longest walk of a wire, in steps, but for the wires of the tests.
MaxWalk == 2

RECURSIVE walk_length(_, _)
\* The steps of the directions of wire from the i-th on.
walk_length(wire, i) ==
    IF i > Len(wire) THEN 0 ELSE magnitude(wire[i]) + walk_length(wire, i + 1)

\* The wires of up to MaxWalk steps.
ShortWires ==
    { wire \in UNION { [1..n -> { Direction(dir, num) :
                                    dir \in {"U", "D", "L", "R"}, num \in 1..MaxWalk }]
                       : n \in 0..MaxWalk } :
        walk_length(wire, 1) <= MaxWalk }

\* The wire of the directions dirs and their numbers nums.
wire_of(dirs, nums) == [i \in 1..Len(dirs) |-> Direction(dirs[i], nums[i])]

\* The wires of the tests: main_example, smol_1, smol_2.
TestWires ==
    << <<wire_of(<<"R", "U", "L", "D">>, <<8, 5, 5, 3>>),
         wire_of(<<"U", "R", "D", "L">>, <<7, 6, 4, 4>>)>>,
       <<wire_of(<<"R", "D", "R", "U", "L", "D", "R", "U", "L">>,
                 <<75, 30, 83, 83, 12, 49, 71, 7, 72>>),
         wire_of(<<"U", "R", "U", "R", "D", "R", "D", "R">>,
                 <<62, 66, 55, 34, 71, 55, 58, 83>>)>>,
       <<wire_of(<<"R", "U", "R", "D", "R", "U", "L", "D", "R", "U", "R">>,
                 <<98, 47, 26, 63, 33, 87, 62, 20, 33, 53, 51>>),
         wire_of(<<"U", "R", "D", "R", "D", "R", "U", "R", "U", "R">>,
                 <<98, 91, 20, 16, 67, 40, 7, 15, 6, 7>>)>> >>

\* Wires that go over a point of their own again: one that the other never
\* meets, one that the other meets beyond that point only, one with a
\* direction of no steps, and one that comes back to the origin round a
\* square and then again by the shortest way, where the other meets it.
EdgeWires ==
    << <<wire_of(<<"R", "L", "R">>, <<1, 1, 1>>), wire_of(<<"U">>, <<1>>)>>,
       <<wire_of(<<"R", "L", "R">>, <<1, 1, 2>>),
         wire_of(<<"U", "R", "D">>, <<1, 2, 1>>)>>,
       <<wire_of(<<"R", "U", "R">>, <<1, 0, 1>>), wire_of(<<"R">>, <<2>>)>>,
       <<wire_of(<<"R", "U", "L", "D", "R", "L">>, <<1, 1, 1, 1, 1, 1>>),
         wire_of(<<"D", "U">>, <<1, 1>>)>> >>

WirePairs ==
    (ShortWires \X ShortWires)
        \cup { TestWires[i] : i \in 1..Len(TestWires) }
        \cup { EdgeWires[i] : i \in 1..Len(EdgeWires) }

RECURSIVE next_direction(_, _)
\* `for dir in wire` with `for _ in 0..dir.magnitude()` inside: the first
\* direction from the i-th on whose inner loop has an iteration.
next_direction(wire, i) ==
    IF i > Len(wire) \/ magnitude(wire[i]) > 0 THEN i
    ELSE next_direction(wire, i + 1)

\* main: a new Wiring, and the two paths; no wire (the empty Wire, 0) is run
\* yet.
InitWire ==
    /\ prog = <<>>
    /\ overflow_checks = FALSE
    /\ cpu = new(prog)
    /\ status = "new"
    /\ event = NoEvent
    /\ outputs = <<>>
    /\ fed = <<>>
    /\ run_start = new(prog)
    /\ answer = NotCalled
    /\ nsteps = 0
    /\ ring = NoRing
    /\ loader = NoLoad
    /\ \E paths \in WirePairs :
         wiring = [wire |-> 0, paths |-> paths, self |-> Wiring_new,
                   dir |-> 1, done |-> 0,
                   current_coordinate |-> <<0, 0>>, steps |-> 0]

\* main calls run_wire, for WIRE1 and then for WIRE2: the wire starts at the
\* origin with no steps.
RunWire ==
    /\ \/ wiring.wire = 0
       \/ wiring.wire = WIRE1 /\ wiring.dir > Len(wiring.paths[WIRE1])
    /\ \E wire_number \in {IF wiring.wire = 0 THEN WIRE1 ELSE WIRE2} :
         wiring' = [wiring EXCEPT
                      !.wire = wire_number,
                      !.dir = next_direction(wiring.paths[wire_number], 1),
                      !.done = 0,
                      !.current_coordinate = <<0, 0>>,
                      !.steps = 0]
    /\ UNCHANGED <<prog, overflow_checks, cpu, status, event, outputs, fed,
                   run_start, answer, nsteps, ring, loader>>

\* One iteration of the inner loop of run_wire.
StepWire ==
    /\ wiring.wire \in {WIRE1, WIRE2}
    /\ wiring.dir <= Len(wiring.paths[wiring.wire])
    /\ \E wire \in {wiring.paths[wiring.wire]} :
       \E current_coordinate \in {step_coordinate(wire[wiring.dir], wiring.current_coordinate)} :
       \E set \in {set_wire(wiring.self, current_coordinate, wiring.wire, wiring.steps + 1)} :
         wiring' = [wiring EXCEPT
                      !.self = set.self,
                      !.current_coordinate = current_coordinate,
                      !.steps = set.steps,
                      !.done = IF wiring.done + 1 < magnitude(wire[wiring.dir])
                               THEN wiring.done + 1 ELSE 0,
                      !.dir = IF wiring.done + 1 < magnitude(wire[wiring.dir])
                              THEN wiring.dir
                              ELSE next_direction(wire, wiring.dir + 1)]
    /\ UNCHANGED <<prog, overflow_checks, cpu, status, event, outputs, fed,
                   run_start, answer, nsteps, ring, loader>>

NextWire == RunWire \/ StepWire

SpecWire == InitWire /\ [][NextWire]_vars

(***************************************************************************)
(* The reference reading of an instruction, used to state the properties.  *)
(* Addresses are computed in the integers, not by the interpreter.         *)
(***************************************************************************)
\* A run is at an instruction that decodes to opcode op.
At(op) ==
    /\ status = "running"
    /\ Let(decode(cpu), LAMBDA operation :
           operation.kind = "Ok" /\ operation.opcode = op)

\* The mode of parameter k of the instruction at pc.
ModeOf(k) ==
    Let(decode(cpu), LAMBDA operation :
        IF k = 1 THEN operation.mode1
        ELSE IF k = 2 THEN operation.mode2 ELSE operation.mode3)

\* The raw cell of parameter k.
RawOf(k) == cell(cpu.memory, cpu.pc + k)

\* The address parameter k names in Position or Relative mode.
AddrOf(k) ==
    IF ModeOf(k) = "Position" THEN int_of(RawOf(k))
    ELSE int_of(cpu.rel_base) + int_of(RawOf(k))

\* Parameter k is present on the tape and, if it names an address, the
\* address is a small non-negative integer.
Resolves(k) ==
    /\ cpu.pc + k < Len(cpu.memory)
    /\ ModeOf(k) # "Immediate" =>
         /\ fits_int(RawOf(k)) /\ fits_int(cpu.rel_base)
         /\ AddrOf(k) >= 0

\* The value parameter k loads.
ValueOf(k) ==
    IF ModeOf(k) = "Immediate" THEN RawOf(k)
    ELSE IF AddrOf(k) >= Len(cpu.memory) THEN isize_of(0)
    ELSE cell(cpu.memory, AddrOf(k))

\* Parameter k is a destination the model can store to.
Storable(k) ==
    /\ Resolves(k)
    /\ ModeOf(k) # "Immediate"
    /\ AddrOf(k) < MaxMemLen

\* mem is the tape after value v is stored at address a of the current
\* tape, which grows with zeros up to a if it ends before a.
IsStore(mem, a, v) ==
    /\ Len(mem) = IF a >= Len(cpu.memory) THEN a + 1 ELSE Len(cpu.memory)
    /\ \A i \in 0..(Len(mem) - 1) :
         cell(mem, i) = IF i = a THEN v
                        ELSE IF i < Len(cpu.memory) THEN cell(cpu.memory, i)
                        ELSE isize_of(0)

\* The run goes on with the next instruction: nothing is returned.
GoesOn ==
    /\ status' = "running"
    /\ event' = event
    /\ outputs' = outputs

\* The run returns the event ev.
Returns(ev) ==
    /\ status' = "returned"
    /\ event' = ev

(***************************************************************************)
(* C1: from a state at a STORE-INPUT instruction, a run whose input source *)
(* yields no value returns the awaiting-input event and leaves pc,         *)
(* relative base and memory unchanged, so that the instance is at the same *)
(* STORE-INPUT again and nothing was consumed; this holds every time such  *)
(* a run is repeated.                                                      *)
(***************************************************************************)
C1_Step ==
    (At("STR") /\ answer' = Called(None)) =>
        /\ Returns(Event("RequestingInput", isize_of(0)))
        /\ cpu' = cpu
        /\ fed' = fed /\ outputs' = outputs

\* A run that began at a STORE-INPUT and got no value has returned with the
\* machine as it was when the run began.
C1_Run ==
    (status = "returned" /\ nsteps = 1 /\ answer = Called(None)) =>
        /\ event.type = "RequestingInput"
        /\ cpu = run_start
        /\ calls_input(cpu)

\* C1: a run at a STORE-INPUT that gets no input returns awaiting-input and
\* changes nothing, every time.
C1_NoInputParks == [][C1_Step]_vars /\ []C1_Run

\* An instance that has consumed one input is parked at its second
\* STORE-INPUT by a run without input.
C1_Witness ==
    /\ status = "returned" /\ event.type = "RequestingInput"
    /\ answer = Called(None) /\ Len(fed) = 1 /\ cpu.pc > 0

(***************************************************************************)
(* C2: at a STORE-INPUT whose destination is a Position or Relative        *)
(* parameter with a non-negative address, a run whose input source yields  *)
(* v writes v to exactly that cell, advances pc by 2 and goes on in the    *)
(* same run; [3,5,4,5,99,0] with input 6 outputs 6 and ends with memory    *)
(* [3,5,4,5,99,6].                                                         *)
(***************************************************************************)
C2_Step ==
    (At("STR") /\ answer'.some /\ Storable(1)) =>
        /\ IsStore(cpu'.memory, AddrOf(1), answer'.val)
        /\ cpu'.pc = cpu.pc + 2
        /\ cpu'.rel_base = cpu.rel_base
        /\ fed' = Append(fed, answer'.val)
        /\ GoesOn

C2_Example ==
    (prog = day05_custom_io /\ fed = <<isize_of(6)>>) =>
        /\ status \notin {"failed", "panicked"}
        /\ status = "returned" =>
             /\ outputs = <<isize_of(6)>>
             /\ event \in {Event("HaveOutput", isize_of(6)),
                           Event("Halted", isize_of(0))}
             /\ cpu.memory = vec(<<3, 5, 4, 5, 99, 6>>)

\* C2: a STORE-INPUT that gets v stores v in its destination, advances pc
\* by 2 and the run goes on; the example outputs 6.
C2_InputStored == [][C2_Step]_vars /\ []C2_Example

C2_Witness ==
    /\ prog = day05_custom_io /\ fed = <<isize_of(6)>>
    /\ status = "returned" /\ event.type = "Halted"

(***************************************************************************)
(* C3: a run that decodes OUTPUT returns produced-output with the resolved *)
(* source value, pc advanced by exactly 2, memory and relative base        *)
(* unchanged; nothing after the OUTPUT is executed in that run, and the    *)
(* next run starts at the instruction after it: the value is emitted once. *)
(***************************************************************************)
C3_Step ==
    (At("OUT") /\ Resolves(1)) =>
        /\ Returns(Event("HaveOutput", ValueOf(1)))
        /\ outputs' = Append(outputs, ValueOf(1))
        /\ cpu'.pc = cpu.pc + 2
        /\ cpu'.memory = cpu.memory
        /\ cpu'.rel_base = cpu.rel_base

\* Between the return of a run and the first instruction of the next, the
\* machine does not change.
C3_Resume ==
    (status # "running") => (cpu' = cpu /\ outputs' = outputs)

\* C3: an OUTPUT returns its value once, with pc advanced by 2 and nothing
\* else changed, and the next run starts there.
C3_OutputReturns == [][C3_Step /\ C3_Resume]_vars

\* A second output has been produced by a run that began right after the
\* instruction that produced the first.
C3_Witness ==
    /\ status = "returned" /\ event.type = "HaveOutput"
    /\ Len(outputs) = 2 /\ cpu.pc = run_start.pc + 2

(***************************************************************************)
(* C4: a run that returns normally returns exactly one event, and it ends  *)
(* only on a STORE-INPUT without input, an OUTPUT or a HALT; ADD, MUL, LT, *)
(* EQ, the jumps, ADJUST-RELATIVE-BASE and a STORE-INPUT that received a   *)
(* value never end the run.                                                *)
(***************************************************************************)
C4_ReturnsOnlyOn ==
    (status = "running" /\ status' = "returned") =>
        /\ \/ At("STR") /\ answer' = Called(None) /\ event'.type = "RequestingInput"
           \/ At("OUT") /\ event'.type = "HaveOutput"
           \/ At("HLT") /\ event'.type = "Halted"
        /\ Len(outputs') = Len(outputs) + (IF event'.type = "HaveOutput" THEN 1 ELSE 0)

C4_NeverEnds ==
    (/\ \/ \E op \in {"ADD", "MUL", "LT", "EQ", "JIT", "JIF", "BAS"} : At(op)
        \/ At("STR") /\ answer'.some
     /\ status' \notin {"failed", "panicked"}) => GoesOn

\* C4: a run returns one event, on a STORE-INPUT without input, an OUTPUT
\* or a HALT only.
C4_RunEnds == [][C4_ReturnsOnlyOn /\ C4_NeverEnds]_vars

\* A run has executed several instructions, a STORE-INPUT that received a
\* value among them, before it returned its one event.
C4_Witness ==
    /\ status = "returned" /\ nsteps >= 4
    /\ fed # <<>> /\ event.type = "HaveOutput"

(***************************************************************************)
(* C5: once a run has returned halted, any further run on the instance is  *)
(* a fatal error: it fails instead of returning an event.                  *)
(***************************************************************************)
C5_Step ==
    (status = "running" /\ event.type = "Halted") =>
        status' \in {"failed", "panicked"}

\* C5: every run of an instance that has returned halted fails.
C5_HaltedThenFatal == [][C5_Step]_vars

(***************************************************************************)
(* C6: ADD stores p1 + p2 and MUL stores p1 * p2 in the destination, every *)
(* other cell unchanged, pc advancing by 4, and the run goes on; a program *)
(* of ADD, MUL and HALT only returns halted from its run with the expected *)
(* final tape, e.g. [1,9,10,3,2,3,11,0,99,30,40,50] halts with             *)
(* [3500,9,10,70,2,3,11,0,99,30,40,50] and [1,1,1,4,99,5,6,0,99] with      *)
(* [30,1,1,4,2,5,6,0,99].                                                  *)
(***************************************************************************)
\* v is an integer whose sums and products with another such fit TLC's
\* integers.
Short(v) == fits_int(v) /\ int_of(v) \in -32768..32767

C6_Step ==
    ((At("ADD") \/ At("MUL")) /\ Resolves(1) /\ Resolves(2) /\ Storable(3)
       /\ Short(ValueOf(1)) /\ Short(ValueOf(2))) =>
        /\ IsStore(cpu'.memory, AddrOf(3),
                   isize_of(IF At("ADD")
                            THEN int_of(ValueOf(1)) + int_of(ValueOf(2))
                            ELSE int_of(ValueOf(1)) * int_of(ValueOf(2))))
        /\ cpu'.pc = cpu.pc + 4
        /\ cpu'.rel_base = cpu.rel_base
        /\ GoesOn

\* The programs of the tests without input or output, with their final
\* tapes.
C6_Finals ==
    { <<day02_main_example, vec(<<3500, 9, 10, 70, 2, 3, 11, 0, 99, 30, 40, 50>>)>>,
      <<day02_smol_1, vec(<<2, 0, 0, 0, 99>>)>>,
      <<day02_smol_2, vec(<<2, 3, 0, 6, 99>>)>>,
      <<day02_smol_3, vec(<<2, 4, 4, 5, 99, 9801>>)>>,
      <<day02_smol_4, vec(<<30, 1, 1, 4, 2, 5, 6, 0, 99>>)>>,
      <<day05_main_example, vec(<<1002, 4, 3, 4, 99>>)>>,
      <<day05_some_notes, vec(<<1101, 100, -1, 4, 99>>)>> }

C6_Examples ==
    \A e \in C6_Finals :
        (prog = e[1]) =>
            /\ status \notin {"failed", "panicked"}
            /\ fed = <<>> /\ outputs = <<>>
            /\ status = "returned" =>
                 /\ event.type = "Halted"
                 /\ cpu.memory = e[2]
                 /\ run_start.memory \in {e[1], e[2]}

\* C6: ADD and MUL store the sum and the product, and the programs of ADD,
\* MUL and HALT halt with their expected tapes.
C6_AddMul == [][C6_Step]_vars /\ []C6_Examples

\* The first run of the day 2 example has returned halted.
C6_Witness ==
    /\ prog = day02_main_example
    /\ status = "returned" /\ event.type = "Halted"
    /\ run_start = new(prog) /\ nsteps = 3

(***************************************************************************)
(* C7: the quine [109,1,204,-1,1001,100,1,100,1008,100,16,101,1006,101,0,  *)
(* 99], run without input, returns produced-output from each of 16 runs,   *)
(* the values being its own 16 cells in order, and then returns halted;    *)
(* its counter and flag live at addresses 100 and 101, beyond the initial  *)
(* tape.                                                                   *)
(***************************************************************************)
C7_Quine ==
    (prog = rel_base_quine) =>
        /\ status \notin {"failed", "panicked"}
        /\ fed = <<>>
        /\ Len(outputs) <= 16
        /\ \A i \in 1..Len(outputs) : outputs[i] = prog[i]
        /\ \A i \in 1..16 : cpu.memory[i] = prog[i]
        /\ status = "running" => nsteps <= 5
        /\ status = "returned" =>
             IF Len(outputs) = 16 /\ event.type # "HaveOutput"
             THEN /\ event.type = "Halted"
                  /\ Len(cpu.memory) = 102
                  /\ cell(cpu.memory, 100) = isize_of(16)
                  /\ cell(cpu.memory, 101) = isize_of(1)
             ELSE /\ event = Event("HaveOutput", prog[Len(outputs)])
                  /\ Len(outputs) >= 1

C7_Witness ==
    /\ prog = rel_base_quine
    /\ status = "returned" /\ event.type = "Halted"
    /\ Len(outputs) = 16

(***************************************************************************)
(* C8: sums, products and immediates of 16 decimal digits are exact:       *)
(* [1102,34915192,34915192,7,4,7,99,0] outputs 1219070632396864 and then   *)
(* halts, [104,1125899906842624,99] outputs 1125899906842624 and then      *)
(* halts, and the sum of 1125899906842624 and itself is 2251799813685248,  *)
(* in a build with overflow checks and in one without.                     *)
(***************************************************************************)
\* The decimal digits of a non-negative value, in groups of four, by long
\* division.
RECURSIVE DecimalGroups(_)
DecimalGroups(v) ==
    IF v = isize_of(0) THEN <<>>
    ELSE Append(DecimalGroups(usize_div(v, 10000)), usize_rem(v, 10000))

C8_OutputsOnly(groups) ==
    /\ status \notin {"failed", "panicked"}
    /\ fed = <<>>
    /\ Len(outputs) <= 1
    /\ status = "returned" =>
         /\ Len(outputs) = 1
         /\ ~is_negative(outputs[1])
         /\ DecimalGroups(outputs[1]) = groups
         /\ event \in {Event("HaveOutput", outputs[1]), Event("Halted", isize_of(0))}

\* C8: the 16-digit programs output 1219070632396864, 1125899906842624 and
\* the sum 2251799813685248, and then halt.
C8_Wide ==
    /\ (prog = rel_base_16_digits) => C8_OutputsOnly(<<1219, 706, 3239, 6864>>)
    /\ (prog = rel_base_lorge) => C8_OutputsOnly(<<1125, 8999, 684, 2624>>)
    /\ (prog = add_wide) => C8_OutputsOnly(<<2251, 7998, 1368, 5248>>)

\* The 16-digit product has been output by a build that checks overflow.
C8_Witness ==
    /\ prog = rel_base_16_digits /\ overflow_checks
    /\ status = "returned" /\ event.type = "Halted"
    /\ Len(outputs) = 1

(***************************************************************************)
(* C9: LT stores 1 in its destination when p1 < p2 and 0 otherwise, EQ     *)
(* stores 1 when p1 = p2 and 0 otherwise, whatever the modes of the three  *)
(* parameters; every other cell is unchanged, pc advances by 4 and the run *)
(* goes on.  [3,9,8,9,10,9,4,9,99,-1,8] outputs 1 for input 8 and 0 for    *)
(* input 9, and then halts.                                                *)
(***************************************************************************)
C9_Step ==
    ((At("LT") \/ At("EQ")) /\ Resolves(1) /\ Resolves(2) /\ Storable(3)
       /\ fits_int(ValueOf(1)) /\ fits_int(ValueOf(2))) =>
        /\ IsStore(cpu'.memory, AddrOf(3),
                   isize_of(IF At("LT")
                            THEN (IF int_of(ValueOf(1)) < int_of(ValueOf(2)) THEN 1 ELSE 0)
                            ELSE (IF int_of(ValueOf(1)) = int_of(ValueOf(2)) THEN 1 ELSE 0)))
        /\ cpu'.pc = cpu.pc + 4
        /\ cpu'.rel_base = cpu.rel_base
        /\ GoesOn

\* A test program that reads one input compares it with 8 and outputs
\* the result.
C9_Compares(program, Holds(_)) ==
    (prog = program) =>
        /\ status \notin {"failed", "panicked"}
        /\ (status = "returned" /\ event.type # "RequestingInput") =>
             /\ Len(fed) = 1
             /\ outputs = <<isize_of(IF Holds(int_of(fed[1])) THEN 1 ELSE 0)>>
             /\ event \in {Event("HaveOutput", outputs[1]), Event("Halted", isize_of(0))}

C9_Examples ==
    /\ C9_Compares(cmp_pos_eq_8, LAMBDA x : x = 8)
    /\ C9_Compares(cmp_imm_eq_8, LAMBDA x : x = 8)
    /\ C9_Compares(cmp_pos_lt_8, LAMBDA x : x < 8)
    /\ C9_Compares(cmp_imm_lt_8, LAMBDA x : x < 8)

\* C9: LT and EQ store 1 or 0 as the comparison says, in every combination
\* of modes, and the comparison tests output 1 or 0 accordingly.
C9_Comparisons == [][C9_Step]_vars /\ []C9_Examples

\* The position-mode equality test has output 0 for the input 9.
C9_Witness ==
    /\ prog = cmp_pos_eq_8 /\ fed = <<isize_of(9)>>
    /\ outputs = <<isize_of(0)>>
    /\ status = "returned" /\ event.type = "Halted"

(***************************************************************************)
(* C10: JUMP-IF-TRUE jumps exactly when its first parameter is non-zero,   *)
(* JUMP-IF-FALSE exactly when it is zero; a taken jump sets pc to the      *)
(* target and adds nothing, a jump not taken advances pc by 3; memory and  *)
(* relative base are unchanged and the run goes on.  The jump test         *)
(* programs output 0 for input 0 and 1 for a non-zero input.               *)
(***************************************************************************)
C10_Taken ==
    IF At("JIT") THEN ValueOf(1) # isize_of(0) ELSE ValueOf(1) = isize_of(0)

C10_Step ==
    ((At("JIT") \/ At("JIF")) /\ Resolves(1) /\ Resolves(2)
       /\ fits_int(ValueOf(2)) /\ int_of(ValueOf(2)) >= 0) =>
        /\ cpu'.pc = IF C10_Taken THEN int_of(ValueOf(2)) ELSE cpu.pc + 3
        /\ cpu'.memory = cpu.memory
        /\ cpu'.rel_base = cpu.rel_base
        /\ GoesOn

C10_Tests(program) ==
    (prog = program) =>
        /\ status \notin {"failed", "panicked"}
        /\ (status = "returned" /\ event.type # "RequestingInput") =>
             /\ Len(fed) = 1
             /\ outputs = <<isize_of(IF fed[1] = isize_of(0) THEN 0 ELSE 1)>>
             /\ event \in {Event("HaveOutput", outputs[1]), Event("Halted", isize_of(0))}

C10_Examples == C10_Tests(jmp_pos_zero) /\ C10_Tests(jmp_imm_zero)

\* C10: a jump is taken exactly when its condition says so, to the target
\* and no further, and else advances pc by 3; nothing else changes.
C10_Jumps == [][C10_Step]_vars /\ []C10_Examples

\* A taken jump has landed on its target, an instruction other than the
\* one three cells on.
C10_Witness ==
    /\ prog \in JmpPrograms
    /\ status = "returned" /\ event = Event("HaveOutput", isize_of(2))
    /\ nsteps = 3 /\ Len(outputs) = 1

(***************************************************************************)
(* C11: within a run the input source is called once at each STORE-INPUT   *)
(* that is decoded, and at no other instruction; at most one value is      *)
(* consumed per call, and a run that meets no STORE-INPUT never consults   *)
(* the input source.                                                       *)
(***************************************************************************)
C11_Step ==
    (status = "running") =>
        /\ answer'.called <=> At("STR")
        /\ Len(fed') = Len(fed) + (IF At("STR") /\ answer'.some THEN 1 ELSE 0)
        /\ (At("STR") /\ answer'.some) => fed' = Append(fed, answer'.val)

\* The programs of the tests whose input source panics or returns None:
\* they hold no STORE-INPUT.
C11_NoInputPrograms ==
    { day02_main_example, day02_smol_1, day02_smol_2, day02_smol_3, day02_smol_4,
      day05_main_example, day05_some_notes, output_immediate,
      rel_base_quine, rel_base_16_digits, rel_base_lorge }

C11_Never ==
    (prog \in C11_NoInputPrograms) => (fed = <<>> /\ ~answer.called)

\* C11: the input source is called exactly at the STORE-INPUT instructions,
\* once each.
C11_InputCalls == [][C11_Step]_vars /\ []C11_Never

\* A run has decoded two STORE-INPUT instructions and three other
\* instructions, and the input source has supplied two values.
C11_Witness ==
    /\ prog = two_inputs /\ Len(fed) = 2 /\ nsteps = 4
    /\ status = "returned" /\ event.type = "HaveOutput"
    /\ ~answer.called

(***************************************************************************)
(* The feedback ring: what the properties below read from its state.       *)
(***************************************************************************)
\* The number of instances of the ring, once all are seeded.
RingSize == Len(ring.phases)

\* The run of the k-th call returned HaveOutput.
Produced(k) == ring.calls[k].ran.kind = "HaveOutput"

(***************************************************************************)
(* C12: in the feedback ring the signal starts at 0 and instance 0 is      *)
(* driven first; when the instance at idx returns produced-output x, x is  *)
(* the current signal, the next instance driven is (idx + 1) mod n and x   *)
(* is the input its run is handed; a call follows an output only, so the   *)
(* instances are driven in ring order and each signal goes to one          *)
(* instance.                                                               *)
(***************************************************************************)
C12_Order ==
    (ring.stage \in {"passing", "done", "failed", "panicked"}) =>
        /\ ring.calls # <<>> =>
             /\ ring.calls[1].idx = 0
             /\ ring.calls[1].signal = isize_of(0)
        /\ \A k \in 1..(Len(ring.calls) - 1) :
             /\ Produced(k)
             /\ ring.calls[k + 1].signal = ring.calls[k].ran.val
             /\ ring.calls[k + 1].idx = (ring.calls[k].idx + 1) % RingSize
        /\ (ring.stage = "passing" /\ ring.calls # <<>>) =>
             /\ Produced(Len(ring.calls))
             /\ ring.signal = ring.calls[Len(ring.calls)].ran.val
             /\ ring.idx = (ring.calls[Len(ring.calls)].idx + 1) % RingSize
        /\ (ring.stage = "passing" /\ ring.calls = <<>>) =>
             /\ ring.signal = isize_of(0)
             /\ ring.idx = 0

\* A call hands the current signal to the current instance, and to no
\* other.
C12_Step ==
    (ring.stage = "passing" /\ ring.cpus # <<>>) =>
        /\ Len(ring'.calls) = Len(ring.calls) + 1
        /\ ring'.calls[Len(ring'.calls)].idx = ring.idx
        /\ ring'.calls[Len(ring'.calls)].signal = ring.signal

\* C12: the signal starts at 0 at instance 0 and each output goes, as the
\* new signal, to the next instance of the ring, and to that one only.
C12_RingOrder == [][C12_Step]_vars /\ []C12_Order

\* The signal has gone once around a ring of three and instance 0 has
\* produced output from it.
C12_Witness ==
    /\ RingSize = 3 /\ Len(ring.calls) = 4
    /\ ring.calls[4].idx = 0 /\ Produced(4)
    /\ ring.calls[4].signal # isize_of(0)
    /\ ring.idx = 1

(***************************************************************************)
(* C13: the instances of the ring are seeded once each, in order, with     *)
(* their phase, which is the first input the instance reads; all are       *)
(* seeded before the first call; a seeding run that returns                *)
(* produced-output or halted fails the construction of the ring, and no    *)
(* signal is passed.                                                       *)
(***************************************************************************)
\* The i-th seeding run.
SeedRun(i) == ring.seeded[i].ran

C13_Seeding ==
    (ring.stage # "none") =>
        /\ Len(ring.seeded) <= RingSize
        /\ \A i \in 1..Len(ring.seeded) :
             /\ ring.seeded[i].phase = isize_of(ring.phases[i])
             /\ SeedRun(i).kind = "RequestingInput" =>
                  /\ SeedRun(i).left = None
                  /\ prog[1] = isize_of(3) =>
                       cell(SeedRun(i).m.memory, int_of(prog[2])) = ring.seeded[i].phase
             /\ SeedRun(i).kind # "RequestingInput" =>
                  /\ i = Len(ring.seeded)
                  /\ ring.stage \in {"failed", "panicked"}
                  /\ SeedRun(i).kind \in {"HaveOutput", "Halted"} => ring.stage = "failed"
        /\ ring.stage \in {"failed", "panicked"} /\ Len(ring.seeded) < RingSize =>
             ring.calls = <<>>
        /\ (ring.calls # <<>> \/ ring.stage \in {"passing", "done"}) =>
             /\ Len(ring.seeded) = RingSize
             /\ Len(ring.cpus) = RingSize
             /\ \A i \in 1..RingSize : SeedRun(i).kind = "RequestingInput"
        /\ ring.stage = "seeding" =>
             /\ ring.calls = <<>> /\ ring.signal = isize_of(0) /\ ring.idx = 0
             /\ Len(ring.cpus) = Len(ring.seeded)

\* Three instances have been seeded with their phases, and then the first
\* signal has been passed.
C13_Witness ==
    /\ RingSize = 3 /\ Len(ring.seeded) = 3 /\ Len(ring.calls) = 1
    /\ ring.phases = <<2, 0, 1>>
    /\ \A i \in 1..3 : SeedRun(i).kind = "RequestingInput"

(***************************************************************************)
(* C14: when the ring finishes, its result is the most recent signal: the  *)
(* value of the last produced-output event, or the initial signal 0 if no  *)
(* instance produced output; it is the value the halting instance was      *)
(* handed, unaltered.                                                      *)
(***************************************************************************)
C14_Result ==
    (ring.stage = "done") =>
        /\ ring.calls # <<>>
        /\ ring.calls[Len(ring.calls)].ran.kind = "Halted"
        /\ ring.result = ring.calls[Len(ring.calls)].signal
        /\ ring.result = IF Len(ring.calls) = 1 THEN isize_of(0)
                         ELSE ring.calls[Len(ring.calls) - 1].ran.val
        /\ \A k \in 1..(Len(ring.calls) - 1) : Produced(k)

\* A ring of three amplifiers of two rounds has finished with the value of
\* its sixth output.
C14_Witness ==
    /\ ring.stage = "done" /\ prog = amp_rounds
    /\ ring.phases = <<2, 0, 1>> /\ Len(ring.calls) = 7
    /\ ring.result = isize_of(6)

(***************************************************************************)
(* C15: an instance that returns halted leaves the ring and the signal     *)
(* goes on among the others; the result is reported only once every        *)
(* instance of the ring has halted.                                        *)
(***************************************************************************)
\* Instance i (counted from 0) has returned Halted from a call.
HasHalted(i) ==
    \E k \in 1..Len(ring.calls) :
        ring.calls[k].idx = i /\ ring.calls[k].ran.kind = "Halted"

\* C15: a ring that has reported its result has seen every instance halt.
C15_AllHalted ==
    (ring.stage = "done") => \A i \in 0..(RingSize - 1) : HasHalted(i)

(***************************************************************************)
(* C16: instances share no state: a run of one instance changes the pc,    *)
(* relative base and memory of that instance only, whatever order the      *)
(* driver runs the instances in, and the program they were created from    *)
(* is left as it was.                                                      *)
(***************************************************************************)
C16_Step ==
    (ring.stage = "free") =>
        /\ Len(ring'.cpus) = Len(ring.cpus)
        /\ \A j \in 1..Len(ring.cpus) :
             (j # ring'.driven) => ring'.cpus[j] = ring.cpus[j]
        /\ prog' = prog

\* C16: a run changes the machine of the instance it is made on, and no
\* other.
C16_NoSharedState == [][C16_Step]_vars

\* Two instances of one program have been driven to different states: the
\* second has halted, the first awaits its second input.
C16_Witness ==
    /\ ring.stage = "free" /\ prog = amp_sum
    /\ ring.driven = 2 /\ ring.kind = "Halted"
    /\ ring.cpus[1].pc = 2 /\ ring.cpus[2].pc = 10
    /\ ring.cpus[1].memory # ring.cpus[2].memory

(***************************************************************************)
(* C17: execution is deterministic: instances created from equal programs  *)
(* and handed equal inputs return equal outcomes and are in equal states   *)
(* after each run; the ring over a program and a sequence of phases ends   *)
(* the same way, with the same final signal, in every execution.           *)
(***************************************************************************)
\* The inputs instance i (counted from 1) has been handed, run by run, and
\* the outcomes of those runs: the seeding run first, then its calls.
RECURSIVE CallsOf(_, _)
CallsOf(i, k) ==
    IF k = 0 THEN <<>>
    ELSE IF ring.calls[k].idx = i - 1
         THEN Append(CallsOf(i, k - 1), ring.calls[k])
         ELSE CallsOf(i, k - 1)

Handed(i) ==
    Let(CallsOf(i, Len(ring.calls)), LAMBDA cs :
        <<ring.seeded[i].phase>> \o [k \in 1..Len(cs) |-> cs[k].signal])

Outcomes(i) ==
    Let(CallsOf(i, Len(ring.calls)), LAMBDA cs :
        <<<<SeedRun(i).kind, SeedRun(i).val>>>>
          \o [k \in 1..Len(cs) |-> <<cs[k].ran.kind, cs[k].ran.val>>])

IsPrefix(a, b) == Len(a) <= Len(b) /\ \A k \in 1..Len(a) : a[k] = b[k]

C17_Instances ==
    (ring.stage \in {"seeding", "passing", "done", "failed"}) =>
        \A i, j \in 1..Len(ring.cpus) :
            /\ IsPrefix(Handed(i), Handed(j)) => IsPrefix(Outcomes(i), Outcomes(j))
            /\ Handed(i) = Handed(j) => ring.cpus[i] = ring.cpus[j]

RECURSIVE SumOf(_, _)
SumOf(phases, n) == IF n = 0 THEN 0 ELSE phases[n] + SumOf(phases, n - 1)

\* How the ring over the program and the phases ends, worked out by hand:
\* the stage it ends in and, where it finishes, its result.
C17_Expected ==
    Let(ring.phases, LAMBDA phases :
        CASE phases = <<>> -> <<"panicked", 0>>
          [] prog \in {output_immediate, day02_smol_1, day05_custom_io, str_immediate}
               -> <<"failed", 0>>
          [] prog = amp_greedy   -> <<"failed", 0>>
          [] prog = amp_identity -> <<"done", 0>>
          [] prog = amp_mute     -> <<"done", 0>>
          [] prog = amp_sum      -> <<"done", SumOf(phases, Len(phases))>>
          [] prog = amp_rounds   -> <<"done", 2 * SumOf(phases, Len(phases))>>
          [] prog = amp_twice    -> <<"done", phases[Len(phases)]>>)

C17_Ring ==
    /\ ring.stage \in {"done", "failed", "panicked"} =>
         /\ ring.stage = C17_Expected[1]
         /\ ring.stage = "done" => ring.result = isize_of(C17_Expected[2])
    /\ (ring.stage = "passing" /\ ring.phases # <<>>) =>
         /\ C17_Expected[1] = "failed" => (prog = amp_greedy /\ ring.calls = <<>>)
         /\ Len(ring.calls) <= 2 * RingSize

Tokens(text) ==
    Let(str_split(text, ","), LAMBDA pieces :
        [i \in 1..Len(pieces) |-> trim(pieces[i])])

\* What the text loads as, token for token: every token's number, in order,
\* if every token is a signed integer, and an error if one is not.
LoadsAs(text, result) ==
    Let(Tokens(text), LAMBDA tokens :
        IF \A i \in 1..Len(tokens) : isize_from_str(tokens[i]).kind = "Ok"
        THEN /\ result.kind = "Ok"
             /\ Len(result.program) = Len(tokens)
             /\ \A i \in 1..Len(tokens) :
                  result.program[i] = isize_from_str(tokens[i]).val
        ELSE result.kind = "Err")

\* C18: whichever loader is given a text, it returns the numbers of all the
\* text's comma-separated, trimmed tokens, none left out, and returns an
\* error and no program if a token is not a signed integer.
\* stdin_to_prog does not: given "1,\n2" it returns [1], and given "1,,2"
\* it returns [1, 2].
C18_Loaders ==
    loader.by \in {"stdin_to_prog", "first_arg_to_prog"}
        => LoadsAs(loader.text, loader.result)

\* C18, of first_arg_to_prog alone, which does load every token or fail.
C18_FileLoader ==
    loader.by = "first_arg_to_prog" => LoadsAs(loader.text, loader.result)

\* C18: first_arg_to_prog loads a token that begins with a newline.
C18_FileLoaderWitness ==
    /\ loader.by = "first_arg_to_prog"
    /\ loader.text = <<"1", ",", "\n", "7">>
    /\ loader.result = Loaded("Ok", <<isize_of(1), isize_of(7)>>)

\* C18: stdin_to_prog leaves a token out.
C18_Dropped ==
    /\ loader.by = "stdin_to_prog"
    /\ loader.text = <<"1", ",", "\n", "7">>
    /\ loader.result = Loaded("Ok", <<isize_of(1)>>)

(***************************************************************************)
(* C19: decoding                                                           *)
(***************************************************************************)
\* The opcodes by number and the modes by digit.
OpcodeNumbered ==
    (1 :> "ADD") @@ (2 :> "MUL") @@ (3 :> "STR") @@ (4 :> "OUT") @@ (5 :> "JIT")
    @@ (6 :> "JIF") @@ (7 :> "LT") @@ (8 :> "EQ") @@ (9 :> "BAS") @@ (99 :> "HLT")
ModeNumbered == (0 :> "Position") @@ (1 :> "Immediate") @@ (2 :> "Relative")

\* The decimal digit of the integer v in the place of weight place.
DigitAt(v, place) == (v \div place) % 10

\* The integer v is an instruction word.
IsInstruction(v) ==
    /\ v >= 0
    /\ v % 100 \in DOMAIN OpcodeNumbered
    /\ \A place \in {100, 1000, 10000} : DigitAt(v, place) \in DOMAIN ModeNumbered

\* The instruction the word v is.
InstructionOf(v) ==
    Operation("Ok", OpcodeNumbered[v % 100], ModeNumbered[DigitAt(v, 100)],
              ModeNumbered[DigitAt(v, 1000)], ModeNumbered[DigitAt(v, 10000)])

\* A step of a run whose machine has the word v at pc: an instruction word
\* decodes to its opcode and its three modes; at any other word decoding
\* fails, and the run ends in a failure, with no event and the machine as it
\* was.
C19_Step ==
    (status = "running" /\ cpu.pc < Len(cpu.memory)
                        /\ fits_int(cell(cpu.memory, cpu.pc)))
        => Let(int_of(cell(cpu.memory, cpu.pc)), LAMBDA v :
               IF IsInstruction(v)
               THEN decode(cpu) = InstructionOf(v)
               ELSE /\ decode(cpu) = NoOperation("Err")
                    /\ status' = "failed"
                    /\ cpu' = cpu
                    /\ event' = event
                    /\ outputs' = outputs)

\* C19: decoding a word gives the opcode of its two low digits and the modes
\* of its next three digits if the word is not negative, the opcode is one
\* of the ten and all three mode digits are 0, 1 or 2, whatever the opcode;
\* at every other word decoding fails and the run returns a failure, not an
\* event.
C19_Decode == [][C19_Step]_vars

\* C19: a run has failed at the word 30004, an OUT with the digit 3 in the
\* place of its third mode, which an OUT has no use for.
C19_Witness ==
    /\ prog = decode_program(30004)
    /\ status = "failed"
    /\ nsteps = 1
    /\ decode(cpu) = NoOperation("Err")
    /\ outputs = <<>>

(***************************************************************************)
(* C20: loading a parameter                                                *)
(***************************************************************************)
Modes == {"Position", "Immediate", "Relative"}

\* The address the parameter in slot k names if read in the mode mode.
LoadAddr(k, mode) ==
    IF mode = "Position" THEN int_of(RawOf(k))
    ELSE int_of(cpu.rel_base) + int_of(RawOf(k))

\* Slot k is on the tape, and read in the mode mode names a cell: an
\* address that is a small integer and not negative.
Loadable(k, mode) ==
    /\ cpu.pc + k < Len(cpu.memory)
    /\ mode # "Immediate" =>
         /\ fits_int(RawOf(k)) /\ fits_int(cpu.rel_base)
         /\ LoadAddr(k, mode) >= 0

\* What the slot k loads in the mode mode.
LoadValue(k, mode) ==
    IF mode = "Immediate" THEN RawOf(k)
    ELSE IF LoadAddr(k, mode) >= Len(cpu.memory) THEN isize_of(0)
    ELSE cell(cpu.memory, LoadAddr(k, mode))

\* In every state, every slot loads in every mode what its mode says.
C20_Values ==
    \A k \in 1..3 : \A mode \in Modes :
        Loadable(k, mode)
            => load_arg(cpu, k, mode, overflow_checks) = Ok(LoadValue(k, mode))

\* An instruction that loads and does not store leaves the memory as it was,
\* also where it loads from past the end of the memory; an OUT returns what
\* its slot loads.
C20_Step ==
    /\ (\E op \in {"OUT", "JIT", "JIF", "BAS"} : At(op)) => cpu'.memory = cpu.memory
    /\ (At("OUT") /\ Loadable(1, ModeOf(1)))
           => Returns(Event("HaveOutput", LoadValue(1, ModeOf(1))))

\* C20: a parameter in slot k loads memory[pc+k] in Immediate mode, the cell
\* at the address memory[pc+k] in Position mode and the cell at the address
\* relative_base + memory[pc+k] in Relative mode; an address at or past the
\* end of the memory loads 0, and the load changes neither the contents nor
\* the length of the memory.
C20_Loads == []C20_Values /\ [][C20_Step]_vars

\* C20: both OUTs of load_past_end, one Position and one Relative, have
\* loaded from address 20 of a memory of 10 cells, and the JIT has loaded from
\* address 23; the memory is the program still.
C20_Witness ==
    /\ prog = load_past_end
    /\ status = "returned"
    /\ event = Event("Halted", isize_of(0))
    /\ outputs = <<isize_of(0), isize_of(0)>>
    /\ cpu.memory = prog
    /\ Len(cpu.memory) = 10

(***************************************************************************)
(* C21: storing through a parameter                                        *)
(***************************************************************************)
\* The slot an instruction stores through, 0 if it stores nothing.
StoreSlot ==
    IF \E op \in {"ADD", "MUL", "LT", "EQ"} : At(op) THEN 3
    ELSE IF At("STR") THEN 1 ELSE 0

\* The values stored to try every slot in every state.
StoreProbes == {isize_of(0), isize_of(-7)}

\* In every state, a store through any slot in Position or Relative mode gives
\* the tape with the value at the address the slot names, grown with zeros
\* up to that address if it ended before it, and otherwise as it was.
C21_Values ==
    \A k \in 1..3 : \A mode \in {"Position", "Relative"} : \A value \in StoreProbes :
        (Loadable(k, mode) /\ LoadAddr(k, mode) < MaxMemLen)
            => Let(store_arg(cpu, k, mode, value, overflow_checks), LAMBDA stored :
                   /\ stored.kind = "Ok"
                   /\ IsStore(stored.memory, LoadAddr(k, mode), value))

\* An instruction that has stored has changed the tape at the address of
\* its destination and nowhere else, but for the growth up to it.
C21_Step ==
    (StoreSlot # 0 /\ Storable(StoreSlot) /\ status' = "running")
        => /\ IsStore(cpu'.memory, AddrOf(StoreSlot),
                      cell(cpu'.memory, AddrOf(StoreSlot)))
           /\ At("STR") => cell(cpu'.memory, AddrOf(1)) = answer'.val

\* C21: a store through a Position or Relative parameter writes the value at
\* the address memory[pc+k], resp. relative_base + memory[pc+k]; where that
\* address a is at or past the end of the memory, the memory grows to
\* length a+1 exactly, the new cells other than a hold 0, and every old cell
\* other than a keeps its value.
C21_Stores == []C21_Values /\ [][C21_Step]_vars

\* C21: rel_store has stored its input 7 at address 10 of a memory of 7
\* cells, which has grown to 11 cells, those between holding 0.
C21_Witness ==
    /\ prog = rel_store
    /\ fed = <<isize_of(7)>>
    /\ Len(cpu.memory) = 11
    /\ cell(cpu.memory, 10) = isize_of(7)
    /\ \A i \in 7..9 : cell(cpu.memory, i) = isize_of(0)
    /\ \A i \in 0..6 : cell(cpu.memory, i) = cell(prog, i)

(***************************************************************************)
(* C22: an Immediate destination                                           *)
(***************************************************************************)
\* The instruction at pc stores through a slot whose mode is Immediate.
ImmediateStore == StoreSlot # 0 /\ ModeOf(StoreSlot) = "Immediate"

C22_Step ==
    ImmediateStore => (status' = "failed" /\ cpu'.memory = cpu.memory)

\* C22: an ADD, MUL, LT or EQ whose third parameter, or a STORE-INPUT whose
\* first parameter, is in Immediate mode makes the run return a failure and
\* no event, and no cell is written.
\* A STORE-INPUT with an Immediate destination whose input source has no
\* value returns the awaiting-input event: [103, 0, 99] run without input.
C22_ImmediateStoreFails == [][C22_Step]_vars

\* C22, but for a STORE-INPUT that gets no value and for operands that are
\* off the tape or whose sum or product overflows.
C22_StepWithValue ==
    (/\ ImmediateStore
     /\ At("STR") => answer'.some
     /\ StoreSlot = 3 => status' # "panicked")
        => (status' = "failed" /\ cpu'.memory = cpu.memory)

C22_FailsOnceStoring == [][C22_StepWithValue]_vars

\* C22: [103, 0, 99], asked to run with no input, has returned awaiting-input.
C22_Awaiting ==
    /\ prog = str_immediate
    /\ status = "returned"
    /\ event = Event("RequestingInput", isize_of(0))
    /\ cpu = new(prog)

(***************************************************************************)
(* C23: a negative address                                                 *)
(***************************************************************************)
\* The slots the instruction at pc loads from, in the order it loads.
LoadSlots ==
    IF \E op \in {"ADD", "MUL", "LT", "EQ", "JIT", "JIF"} : At(op) THEN {1, 2}
    ELSE IF At("OUT") \/ At("BAS") THEN {1} ELSE {}

\* The sum or product of an ADD or MUL at pc overflows in a build that
\* checks for it.
ArithmeticPanics ==
    /\ overflow_checks
    /\ \/ At("ADD") /\ add_overflows(ValueOf(1), ValueOf(2))
       \/ At("MUL") /\ mul_overflows(ValueOf(1), ValueOf(2))

\* The step gets as far as the slot k of the instruction at pc: the slots
\* loaded before it have loaded, and a store has its value.
Reached(k) ==
    /\ k \in LoadSlots \/ k = StoreSlot
    /\ \A j \in LoadSlots : j < k => Resolves(j)
    /\ k = StoreSlot =>
         /\ At("STR") => answer'.some
         /\ ~ArithmeticPanics

\* Slot k is on the tape and names a negative address.
NegativeAddr(k) ==
    /\ cpu.pc + k < Len(cpu.memory)
    /\ ModeOf(k) # "Immediate"
    /\ fits_int(RawOf(k)) /\ fits_int(cpu.rel_base)
    /\ AddrOf(k) < 0

\* In every state, a load or a store through any slot that names a negative
\* address in Position or Relative mode is an error, and the store leaves
\* the tape as it was.
C23_Values ==
    \A k \in 1..3 : \A mode \in {"Position", "Relative"} :
        (cpu.pc + k < Len(cpu.memory)
            /\ fits_int(RawOf(k)) /\ fits_int(cpu.rel_base)
            /\ LoadAddr(k, mode) < 0)
        => /\ load_arg(cpu, k, mode, overflow_checks) = Fail("Err")
           /\ store_arg(cpu, k, mode, isize_of(1), overflow_checks)
                  = Stored("Err", cpu.memory)

\* A step that gets as far as a slot with a negative address fails, and
\* leaves the machine as it was.
C23_Step ==
    (\E k \in 1..3 : Reached(k) /\ NegativeAddr(k))
        => /\ status' = "failed"
           /\ cpu' = cpu
           /\ event' = event
           /\ outputs' = outputs

\* C23: a load or a store through a Position or Relative parameter whose
\* address is negative makes the run return a failure and no event; the
\* memory is neither read or written at a negative index nor resized.
C23_NegativeAddress == []C23_Values /\ [][C23_Step]_vars

\* C23: the ADD of rel_store_negative has failed to store through the
\* Relative address -5 + 3; the BAS before it has been done.
C23_Witness ==
    /\ prog = rel_store_negative
    /\ status = "failed"
    /\ cpu.rel_base = isize_of(-5)
    /\ cpu.pc = 2
    /\ cpu.memory = prog

(***************************************************************************)
(* C24: fetching past the end of the memory                                *)
(***************************************************************************)
\* A step with pc at or past the end of the memory goes as at the word 0,
\* which is no instruction: the run fails and the machine is as it was.  A
\* step that gets as far as a slot past the end of the memory does not
\* abort.
C24_Step ==
    /\ (status = "running" /\ cpu.pc >= Len(cpu.memory))
           => (status' = "failed" /\ cpu' = cpu)
    /\ (\E k \in 1..3 : Reached(k) /\ cpu.pc + k >= Len(cpu.memory))
           => status' # "panicked"

\* C24: the instruction word at a pc at or past the end of the memory, and
\* the cell of a parameter at pc+k at or past it, are read as 0; the run
\* does not abort outside its events and failures.
\* The code indexes the Vec, which panics: [1101, 1, 1, 0] stores 2 at 0 and
\* aborts fetching the word at pc = 4.
C24_FetchIsZeroExtended == [][C24_Step]_vars

\* C24: the run of [1101, 1, 1, 0] has aborted at pc = 4, past its 4 cells.
C24_Panicked ==
    /\ prog = off_the_end
    /\ status = "panicked"
    /\ cpu.pc = 4
    /\ Len(cpu.memory) = 4

(***************************************************************************)
(* C25: the relative base                                                  *)
(***************************************************************************)
\* The program may hold an ADJUST-RELATIVE-BASE: one of its cells ends in the
\* digits 09, or is too wide to tell here.
C25_MayAdjust ==
    \E i \in 1..Len(prog) : fits_int(prog[i]) => int_of(prog[i]) % 100 = 9

\* A new instance has the relative base 0, and so has, ever, an instance of a
\* program without ADJUST-RELATIVE-BASE, whatever its runs return.
C25_Base ==
    /\ status = "new" => cpu.rel_base = isize_of(0)
    /\ ~C25_MayAdjust => cpu.rel_base = isize_of(0)

\* An ADJUST-RELATIVE-BASE adds the value of its parameter to the relative
\* base and goes on at pc + 2 with the memory as it was; no other step
\* changes the relative base.
C25_Step ==
    /\ (At("BAS") /\ Resolves(1) /\ fits_int(ValueOf(1)) /\ fits_int(cpu.rel_base))
           => /\ fits_int(cpu'.rel_base)
              /\ int_of(cpu'.rel_base) = int_of(cpu.rel_base) + int_of(ValueOf(1))
              /\ cpu'.pc = cpu.pc + 2
              /\ cpu'.memory = cpu.memory
              /\ GoesOn
    /\ ~At("BAS") => cpu'.rel_base = cpu.rel_base

\* C25: the relative base is 0 at first; ADJUST-RELATIVE-BASE adds its
\* parameter's value, negative or not, to it, advances pc by 2 and leaves the
\* memory; nothing else changes it, and a run without one returns with the
\* relative base it began with.
C25_RelativeBase == []C25_Base /\ [][C25_Step]_vars

\* C25: the quine has gone once round its loop and adjusted the relative
\* base twice, by 1 each time.
C25_Witness ==
    /\ prog = rel_base_quine
    /\ cpu.rel_base = isize_of(2)
    /\ cpu.pc = 2
    /\ status = "running"

(***************************************************************************)
(* C26: a failure ends the run where it is                                 *)
(***************************************************************************)
\* The step at which a run fails changes nothing: the machine, the event
\* last returned and the outputs are what the instructions before it made
\* them.  After it the run is over: the next thing to happen is a new run,
\* called by the driver, from that same machine.
C26_Step ==
    /\ status' = "failed" => (cpu' = cpu /\ event' = event /\ outputs' = outputs)
    /\ status = "failed" => (status' = "running" /\ nsteps' = 0 /\ cpu' = cpu
                             /\ run_start' = cpu)

\* C26: a decode or addressing error ends the run at once with a failure:
\* nothing is executed after the failing instruction, and pc, relative base
\* and memory are as they were before it was decoded, with whatever the
\* instructions before it in the run did.
C26_FailureIsImmediate == [][C26_Step]_vars

\* C26: the first run of rel_store_negative has failed at its second
\* instruction; what the first did to the relative base remains, and pc is
\* at the second.
C26_Witness ==
    /\ prog = rel_store_negative
    /\ status = "failed"
    /\ nsteps = 2
    /\ run_start = new(prog)
    /\ cpu = [run_start EXCEPT !.pc = 2, !.rel_base = isize_of(-5)]

(***************************************************************************)
(* C27: Halted is absorbing                                                *)
(***************************************************************************)
\* An instance whose last event is Halted stands at a HLT.
C27_AtHalt ==
    event.type = "Halted" => decode(cpu) = Operation_try_from(isize_of(99))

\* A step of a run of an instance whose last event is Halted returns Halted
\* again, without a call of the input source and without a change of the
\* machine.  (Nothing but execute touches the memory here.)
C27_Step ==
    (status = "running" /\ event.type = "Halted")
        => /\ Returns(Event("Halted", isize_of(0)))
           /\ cpu' = cpu
           /\ answer' = NotCalled
           /\ fed' = fed
           /\ outputs' = outputs

\* C27: HALT changes no state; once a run has returned halted, every later
\* run returns halted again, does not consult the input source, and leaves
\* pc, relative base and memory unchanged.
C27_HaltedAbsorbing == []C27_AtHalt /\ [][C27_Step]_vars

\* C27: a run of [1,0,0,0,99] that began at its HLT, the instance having
\* halted before, has returned halted at its first step.
C27_Witness ==
    /\ prog = day02_smol_1
    /\ run_start.pc = 4
    /\ cpu = run_start
    /\ nsteps = 1
    /\ status = "returned"
    /\ event = Event("Halted", isize_of(0))

(***************************************************************************)
(* C28: a negative jump target                                             *)
(***************************************************************************)
\* A jump whose target value is negative fails, whether its condition would
\* have it taken or not, and the machine stays at the jump.
C28_Step ==
    ((At("JIT") \/ At("JIF")) /\ Resolves(1) /\ Resolves(2)
        /\ is_negative(ValueOf(2)))
        => /\ status' = "failed"
           /\ cpu' = cpu
           /\ event' = event

\* C28: JUMP-IF-TRUE and JUMP-IF-FALSE convert the target before they test
\* the condition: a negative target makes the run fail also where the jump
\* would not be taken, with pc at the jump and not 3 further.
C28_NegativeTarget == [][C28_Step]_vars

\* C28: a JUMP-IF-TRUE with the condition 0 and the target -1 has failed at
\* pc = 0.
C28_Witness ==
    /\ prog = jmp_negative(5, 0)
    /\ status = "failed"
    /\ cpu = new(prog)
    /\ nsteps = 1

(***************************************************************************)
(* C29: the length of the memory                                           *)
(***************************************************************************)
\* The step stores at the address a.
StoresAt(a) ==
    /\ StoreSlot # 0 /\ Storable(StoreSlot)
    /\ AddrOf(StoreSlot) = a
    /\ status' = "running"

\* What the cell i holds before a step: 0 if it is not there yet.
CellOrZero(i) == IF i < Len(cpu.memory) THEN cell(cpu.memory, i) ELSE isize_of(0)

\* A step does not shorten the memory; it lengthens it only by a store at or
\* past its end, to that address and one more; and a cell that differs after
\* it from what it held (0 if it was not there) is the one the step stored
\* at.
C29_Step ==
    /\ Len(cpu'.memory) >= Len(cpu.memory)
    /\ Len(cpu'.memory) > Len(cpu.memory)
           => /\ StoresAt(Len(cpu'.memory) - 1)
    /\ \A i \in 0..(Len(cpu'.memory) - 1) :
           cell(cpu'.memory, i) # CellOrZero(i) => StoresAt(i)

\* C29: through all runs of an instance the memory never gets shorter, and
\* is never shorter than the program; it grows only when a store is at or
\* past its end; a cell at or past the program's length holds 0 unless a
\* store has written it.
C29_Length == [](Len(cpu.memory) >= Len(prog)) /\ [][C29_Step]_vars

\* C29: the quine, a program of 16 cells, has stored at 100 and at 101; its
\* memory has 102 cells, and those from 16 to 99 hold 0.
C29_Witness ==
    /\ prog = rel_base_quine
    /\ Len(cpu.memory) = 102
    /\ \A i \in 16..99 : cell(cpu.memory, i) = isize_of(0)
    /\ cell(cpu.memory, 100) # isize_of(0)

(***************************************************************************)
(* C30: the distance to the closest crossing                               *)
(***************************************************************************)
\* The step of a direction.
UnitStep == [U |-> <<0, 1>>, D |-> <<0, -1>>, L |-> <<-1, 0>>, R |-> <<1, 0>>]

RECURSIVE PointsFrom(_, _, _)
\* The points a wire comes to with its directions from the i-th on, leaving
\* from the point from; from itself is none of them unless the wire comes
\* back to it.
PointsFrom(wire, i, from) ==
    IF i > Len(wire) THEN {}
    ELSE { <<from[1] + k * UnitStep[wire[i].dir][1],
             from[2] + k * UnitStep[wire[i].dir][2]>> : k \in 1..wire[i].num }
         \cup PointsFrom(wire, i + 1,
                         <<from[1] + wire[i].num * UnitStep[wire[i].dir][1],
                           from[2] + wire[i].num * UnitStep[wire[i].dir][2]>>)

\* The points both wires come to.
Crossings ==
    PointsFrom(wiring.paths[1], 1, <<0, 0>>) \cap PointsFrom(wiring.paths[2], 1, <<0, 0>>)

Manhattan(point) ==
    (IF point[1] < 0 THEN 0 - point[1] ELSE point[1])
        + (IF point[2] < 0 THEN 0 - point[2] ELSE point[2])

\* Both wires are run.
BothRun == wiring.wire = WIRE2 /\ wiring.dir > Len(wiring.paths[WIRE2])

\* C30: after wire 1 and then wire 2 are run from the origin, dist is the
\* least Manhattan distance from the origin of the points both wires come
\* to, and usize::MAX if there is none; a point one wire alone comes to twice
\* is no crossing, so dist is usize::MAX while wire 1 is run; the origin
\* counts only if a wire comes back to it.  R8,U5,L5,D3 and U7,R6,D4,L4 give
\* 6, and the two other tests 159 and 135.
C30_Distance ==
    /\ wiring.wire \in {0, WIRE1} => wiring.self.dist = usize_MAX
    /\ BothRun =>
         /\ wiring.self.dist =
              IF Crossings = {} THEN usize_MAX
              ELSE CHOOSE d \in { Manhattan(point) : point \in Crossings } :
                     \A point \in Crossings : d <= Manhattan(point)
         /\ wiring.paths = TestWires[1] => wiring.self.dist = 6
         /\ wiring.paths = TestWires[2] => wiring.self.dist = 159
         /\ wiring.paths = TestWires[3] => wiring.self.dist = 135

\* C30: the wires of main_example are both run, and dist is 6.
C30_Witness ==
    /\ BothRun
    /\ wiring.paths = TestWires[1]
    /\ wiring.self.dist = 6
    /\ wiring.self.closest_crossing = <<3, 3>>

(***************************************************************************)
(* C31: the length to the closest crossing                                 *)
(***************************************************************************)
RECURSIVE ArrivalsFrom(_, _, _, _)
\* The arrivals <<point, steps walked>> of a wire with its directions from
\* the i-th on, leaving from the point from after walked steps.
ArrivalsFrom(wire, i, from, walked) ==
    IF i > Len(wire) THEN {}
    ELSE { << <<from[1] + k * UnitStep[wire[i].dir][1],
                from[2] + k * UnitStep[wire[i].dir][2]>>, walked + k >> :
             k \in 1..wire[i].num }
         \cup ArrivalsFrom(wire, i + 1,
                           <<from[1] + wire[i].num * UnitStep[wire[i].dir][1],
                             from[2] + wire[i].num * UnitStep[wire[i].dir][2]>>,
                           walked + wire[i].num)

\* The least of a set of numbers.
Least(S) == CHOOSE m \in S : \A n \in S : m <= n

\* The steps walked at the first of the arrivals at point.
FirstArrival(arrivals, point) ==
    Least({ arrival[2] : arrival \in { a \in arrivals : a[1] = point } })

\* The least sum, over the points both wires come to, of the steps the two
\* wires have walked when they first arrive there.
WalkedLength ==
    Let(ArrivalsFrom(wiring.paths[1], 1, <<0, 0>>, 0), LAMBDA arrivals1 :
    Let(ArrivalsFrom(wiring.paths[2], 1, <<0, 0>>, 0), LAMBDA arrivals2 :
        Least({ FirstArrival(arrivals1, point) + FirstArrival(arrivals2, point) :
                  point \in Crossings })))

NoRevisit(wire) ==
    Cardinality(PointsFrom(wire, 1, <<0, 0>>)) = walk_length(wire, 1)

\* The running count of the wire being run and the count kept at each
\* point: a step raises the running count by one, but where the wire has
\* been at the point it arrives at, the lesser of that and the count kept
\* there becomes both; the counts kept elsewhere, and for the other wire,
\* stay.
C31_Step ==
    (wiring.wire \in {WIRE1, WIRE2} /\ wiring'.wire = wiring.wire)
        => Let(wiring.self.wiring, LAMBDA old :
           Let(wiring'.self.wiring, LAMBDA kept :
           Let(wiring'.current_coordinate, LAMBDA point :
           Let(IF point \in DOMAIN old /\ wiring.wire \in old[point].visits
                    /\ old[point].steps[wiring.wire] < wiring.steps + 1
               THEN old[point].steps[wiring.wire]
               ELSE wiring.steps + 1, LAMBDA count :
               /\ wiring'.steps = count
               /\ DOMAIN kept = DOMAIN old \cup {point}
               /\ kept[point].steps[wiring.wire] = count
               /\ \A other \in DOMAIN old :
                    /\ other # point => kept[other] = old[other]
                    /\ kept[other].steps[3 - wiring.wire]
                           = old[other].steps[3 - wiring.wire]))))

\* After both wires are run, length is the least sum of the two counts kept
\* at a point both wires have come to, and usize::MAX if there is none; for
\* wires that never come to a point twice that is the least sum of the
\* steps walked; the tests give 30, 610 and 410.
C31_Final ==
    BothRun =>
        /\ wiring.self.length =
             IF Crossings = {} THEN usize_MAX
             ELSE Least({ wiring.self.wiring[point].steps[WIRE1]
                            + wiring.self.wiring[point].steps[WIRE2] :
                          point \in Crossings })
        /\ (Crossings # {} /\ NoRevisit(wiring.paths[1]) /\ NoRevisit(wiring.paths[2]))
               => wiring.self.length = WalkedLength
        /\ wiring.paths = TestWires[1] => wiring.self.length = 30
        /\ wiring.paths = TestWires[2] => wiring.self.length = 610
        /\ wiring.paths = TestWires[3] => wiring.self.length = 410

=============================================================================
